---------------------------- MODULE Spec2Model ----------------------------
(***************************************************************************)
(* A model of the Playwright failure extraction skill of pi-skills:        *)
(* skills/buildkite-playwright-failures/scripts/                           *)
(* extract-playwright-failures.cjs.                                        *)
(*                                                                         *)
(* Text is modelled as a sequence of lexical tokens, so that the regular   *)
(* expressions of the script are decided on what a line holds:             *)
(*   "ESC"  one ANSI SGR sequence (ESC [ digits-or-semicolons m)           *)
(*   "SP"   one blank, "CR" one carriage return (both are \s)             *)
(*   "NUM"  a run of digits                                                *)
(*   "TAG"  a bracketed tag such as [chromium]                             *)
(*   "SEP"  the separator character of Playwright titles                   *)
(*   "HASH" the character #                                                *)
(*   any other token is a word (a run of letters), e.g. "failed", "t1".    *)
(* Two neighbouring word tokens (NUM included) have no \b between them.    *)
(* An optional value (null or a value) is the empty set or a singleton.    *)
(***************************************************************************)
EXTENDS Integers, Sequences, FiniteSets, TLC

VARIABLES
    xEntries,      \* extractFailedTests: the entries argument (a log slice)
    xStartRow,     \* extractFailedTests: the startRow argument
    xResult,       \* extractFailedTests: the returned object, None before the call
    pc,            \* main: the await the invocation is suspended at, or "done"
    exitCode,      \* process.exitCode (0 while unset)
    stdout,        \* the JSON document written by console.log, None while there is none
    stderr,        \* the message written by console.error, None while there is none
    eLog,          \* error lookup: the log of the job --job-id names
    eFailedLineRow,\* error lookup: args.failedLineRow (--failed-line-row), optional
    eSearch,       \* error lookup: the row numbers of the search_logs reply, in reply order
    eMatchRow,     \* error lookup: matchRow
    eSlice,        \* error lookup: the entries of the read_logs reply
    mode,          \* main: "summary" or "error" (args.errorFor given), "none" before parsing
    calls,         \* the mcporter and file-system calls issued so far, in order
    cacheFile,     \* the file at cachePath: missing, corrupt, or a cache entry
    buildInfo,     \* main: buildInfo, optional
    buildJobs,     \* main: build.jobs as get_build returned it
    jobs,          \* main: allPlaywrightJobs
    jobIdx,        \* main: the position of the for loop in the failed Playwright jobs
    jobLog,        \* the log of the job being processed, between its search and its read
    summaryRow,    \* main: summaryRow of the job being processed
    jobResults,    \* main: jobResults
    disk,          \* two invocations: the bytes of the cache file both use, None while missing
    runs,          \* two invocations: where each one is, and what its loadCache read
    argv,          \* main: what parseArgs makes of process.argv, None before main starts
    browser,       \* the failure browser command: its handler, its two script processes, the UI
    cron,          \* the cronjob extension: its jobs, pendingRuns, isAgentBusy, the agent
    fanout,        \* design_research_fanout: the tasks, the workers, the results
    tracker,       \* the design plan tracker: the state in memory and the session entries
    guard          \* the completion guardrail: the turns of the agent and the corrections sent

vars == <<xEntries, xStartRow, xResult, pc, exitCode, stdout, stderr,
          eLog, eFailedLineRow, eSearch, eMatchRow, eSlice,
          mode, calls, cacheFile, buildInfo, buildJobs, jobs, jobIdx, jobLog, summaryRow,
          jobResults, disk, runs, argv, browser, cron, fanout, tracker, guard>>

xVars == <<xEntries, xStartRow, xResult>>
eVars == <<eLog, eFailedLineRow, eSearch, eMatchRow, eSlice>>
mVars == <<buildInfo, buildJobs, jobs, jobIdx, jobLog, summaryRow, jobResults>>
dVars == <<cron, fanout, tracker, guard>>
rVars == <<disk, runs, argv, browser, dVars>>

None == {}
Some(x) == {x}
The(o) == CHOOSE x \in o : TRUE

-----------------------------------------------------------------------------
(* Log Line Model *)

Whitespace == {"SP", "CR"}
NonWord == Whitespace \cup {"ESC", "TAG", "SEP", "HASH", "x1b", "[", ";"}
IsWordTok(t) == t \notin NonWord

\* the /i flag of the script's patterns
Lower(t) ==
    CASE t = "FAILED" -> "failed"
      [] t = "PASSED" -> "passed"
      [] t = "RETRY" -> "retry"
      [] t = "Retry" -> "retry"
      [] t = "Playwright" -> "playwright"
      [] t = "Chromium" -> "chromium"
      [] t = "Safari" -> "safari"
      [] t = "IFrame" -> "iframe"
      [] OTHER -> t

\* "ESC" stands for a whole SGR sequence; "x1b", "[", "0", ";" and "m" are the
\* characters such a sequence is spelled with

\* [0-9;]* from position j: the first position it does not take
RECURSIVE sgrParamsEnd(_, _)
sgrParamsEnd(text, j) ==
    IF j <= Len(text) /\ text[j] \in {"0", ";"} THEN sgrParamsEnd(text, j + 1) ELSE j

\* the length of the match of /\u001b\[[0-9;]*m/ at position i, 0 without one
sgrMatch(text, i) ==
    IF text[i] = "ESC" THEN 1
    ELSE IF text[i] = "x1b" /\ i < Len(text) /\ text[i + 1] = "["
    THEN LET j == sgrParamsEnd(text, i + 2)
         IN  IF j <= Len(text) /\ text[j] = "m" THEN j - i + 1 ELSE 0
    ELSE 0

\* one left-to-right pass of replace(..., "") with the g flag
RECURSIVE stripAnsiFrom(_, _)
stripAnsiFrom(text, i) ==
    IF i > Len(text) THEN <<>>
    ELSE LET n == sgrMatch(text, i)
         IN  IF n > 0 THEN stripAnsiFrom(text, i + n)
             ELSE <<text[i]>> \o stripAnsiFrom(text, i + 1)

stripAnsi(text) == stripAnsiFrom(text, 1)

RECURSIVE trimStart(_)
trimStart(text) ==
    IF text # <<>> /\ Head(text) \in Whitespace THEN trimStart(Tail(text)) ELSE text

RECURSIVE trimEnd(_)
trimEnd(text) ==
    IF text # <<>> /\ text[Len(text)] \in Whitespace
    THEN trimEnd(SubSeq(text, 1, Len(text) - 1))
    ELSE text

trim(text) == trimEnd(trimStart(text))

\* text.replace(/\r$/, "")
dropOneTrailingCR(text) ==
    IF text # <<>> /\ text[Len(text)] = "CR" THEN SubSeq(text, 1, Len(text) - 1) ELSE text

normalizeLogLine(text) == trim(stripAnsi(text))

normalizeLogLinePreserveIndent(text) == trimEnd(dropOneTrailingCR(stripAnsi(text)))

\* /\b\d+\s+(w1|w2|...)\b/i.test(text)
matchesCountOf(text, words) ==
    \E i \in 1..Len(text), j \in 1..Len(text), k \in 1..Len(text) :
        /\ i <= j /\ j < k /\ k < Len(text)
        /\ (i = 1 \/ ~IsWordTok(text[i - 1]))
        /\ \A x \in i..j : text[x] = "NUM"
        /\ \A x \in (j + 1)..k : text[x] \in Whitespace
        /\ Lower(text[k + 1]) \in words
        /\ (k + 1 = Len(text) \/ ~IsWordTok(text[k + 2]))

isFailedSummaryText(text) == matchesCountOf(text, {"failed"})

isSectionEndText(text) == matchesCountOf(text, {"flaky", "skipped", "passed"})

\* an entry of a read_logs reply: c the raw text, r / row the optional row number
buildLogEntries(entries, startRow, preserveIndent) ==
    [i \in 1..Len(entries) |->
        [text |-> IF preserveIndent
                  THEN normalizeLogLinePreserveIndent(entries[i].c)
                  ELSE normalizeLogLine(entries[i].c),
         row |-> IF entries[i].r # None THEN The(entries[i].r)
                 ELSE IF entries[i].row # None THEN The(entries[i].row)
                 ELSE startRow + (i - 1)]]

-----------------------------------------------------------------------------
(* Summary-Block Locator *)

\* lines.findIndex(line => /\b\d+\s+failed\b/i.test(line.text)), 0 for -1
RECURSIVE failedLineIndexFrom(_, _)
failedLineIndexFrom(lines, i) ==
    IF i > Len(lines) THEN 0
    ELSE IF isFailedSummaryText(lines[i].text) THEN i
    ELSE failedLineIndexFrom(lines, i + 1)

failedLineIndex(lines) == failedLineIndexFrom(lines, 1)

\* the loop with the section boundary skipped instead of ending the list
RECURSIVE collectTestsNoBreak(_, _, _)
collectTestsNoBreak(lines, i, acc) ==
    IF i > Len(lines) THEN acc
    ELSE IF lines[i].text = <<>> \/ isSectionEndText(lines[i].text)
    THEN collectTestsNoBreak(lines, i + 1, acc)
    ELSE collectTestsNoBreak(lines, i + 1,
                             Append(acc, [name |-> lines[i].text, row |-> lines[i].row]))

\* the for loop of extractFailedTests: acc is the testEntries array
RECURSIVE collectTests(_, _, _)
collectTests(lines, i, acc) ==
    IF i > Len(lines) THEN acc
    ELSE IF lines[i].text = <<>> THEN collectTests(lines, i + 1, acc)
    ELSE IF isSectionEndText(lines[i].text) THEN acc
    ELSE collectTests(lines, i + 1, Append(acc, [name |-> lines[i].text, row |-> lines[i].row]))

extractFailedTests(entries, startRow) ==
    LET lines == buildLogEntries(entries, startRow, FALSE)
        f == failedLineIndex(lines)
    IN  IF f = 0
        THEN [failedLine |-> None, failedLineRow |-> None, tests |-> <<>>, testEntries |-> <<>>]
        ELSE LET collected == collectTests(lines, f + 1, <<>>)
             IN  [failedLine |-> Some(lines[f].text),
                  failedLineRow |-> Some(lines[f].row),
                  tests |-> [n \in 1..Len(collected) |-> collected[n].name],
                  testEntries |-> collected]

-----------------------------------------------------------------------------
(* Error Block Extractor *)

\* the filter with row <= failedLineRow
rowsUpTo(rows, failedLineRow) ==
    IF failedLineRow = None THEN rows
    ELSE SelectSeq(rows, LAMBDA row : row <= The(failedLineRow))

\* the rows.filter(...) of findTestMatchRow over the numeric row numbers
rowsBefore(rows, failedLineRow) ==
    IF failedLineRow = None THEN rows
    ELSE SelectSeq(rows, LAMBDA row : row < The(failedLineRow))

\* Math.max(...rows) of a non-empty array
RECURSIVE maxRow(_)
maxRow(rows) ==
    IF Len(rows) = 1 THEN rows[1]
    ELSE LET m == maxRow(Tail(rows)) IN IF rows[1] > m THEN rows[1] ELSE m

\* results: the matches of the reply, each with an optional numeric row_number
findTestMatchRow(results, failedLineRow) ==
    LET numeric == SelectSeq(results, LAMBDA m : m.row_number # None)
        rows == [i \in 1..Len(numeric) |-> The(numeric[i].row_number)]
        filtered == rowsBefore(rows, failedLineRow)
    IN  IF Len(filtered) = 0 THEN None ELSE Some(maxRow(filtered))

\* /^\[[^\]]+\]\s+SEP/.test(text)
isTestHeaderLine(text) ==
    /\ Len(text) >= 3
    /\ text[1] = "TAG"
    /\ \E k \in 2..(Len(text) - 1) :
        /\ \A x \in 2..k : text[x] \in Whitespace
        /\ text[k + 1] = "SEP"

isSummarySectionLine(text) == matchesCountOf(text, {"failed", "flaky", "skipped", "passed"})

\* /^Retry\s+#\d+/i.test(text)
isRetryLine(text) ==
    /\ Len(text) >= 4
    /\ Lower(text[1]) = "retry"
    /\ \E k \in 2..(Len(text) - 2) :
        /\ \A x \in 2..k : text[x] \in Whitespace
        /\ text[k + 1] = "HASH"
        /\ text[k + 2] = "NUM"

\* text.includes(needle)
includes(text, needle) ==
    \E i \in 0..(Len(text) - Len(needle)) :
        \A k \in 1..Len(needle) : text[i + k] = needle[k]

\* lines.findIndex(line => line.row === matchRow), 0 for -1
RECURSIVE rowIndexFrom(_, _, _)
rowIndexFrom(lines, matchRow, i) ==
    IF i > Len(lines) THEN 0
    ELSE IF lines[i].row = matchRow THEN i
    ELSE rowIndexFrom(lines, matchRow, i + 1)

\* lines.findIndex(line => line.text.includes(testName)), 0 for -1
RECURSIVE nameIndexFrom(_, _, _)
nameIndexFrom(lines, testName, i) ==
    IF i > Len(lines) THEN 0
    ELSE IF includes(lines[i].text, testName) THEN i
    ELSE nameIndexFrom(lines, testName, i + 1)

\* the loop without the retry marker among its stop patterns
RECURSIVE collectBlockNoRetry(_, _, _, _)
collectBlockNoRetry(lines, startIndex, i, output) ==
    IF i > Len(lines) THEN output
    ELSE IF i > startIndex /\ (\/ isTestHeaderLine(lines[i].text)
                               \/ isSummarySectionLine(lines[i].text))
    THEN output
    ELSE collectBlockNoRetry(lines, startIndex, i + 1, Append(output, lines[i]))

\* the for loop of extractErrorBlock from index i on, startIndex being kept always
RECURSIVE collectBlock(_, _, _, _)
collectBlock(lines, startIndex, i, output) ==
    IF i > Len(lines) THEN output
    ELSE IF i > startIndex /\ (\/ isTestHeaderLine(lines[i].text)
                               \/ isSummarySectionLine(lines[i].text)
                               \/ isRetryLine(lines[i].text))
    THEN output
    ELSE collectBlock(lines, startIndex, i + 1, Append(output, lines[i]))

\* the block with its trailing blank lines left in place
keepTrailingBlank(output) == output

\* while (output.length > 0 && output[output.length - 1].text.trim() === "") output.pop()
RECURSIVE popTrailingBlank(_)
popTrailingBlank(output) ==
    IF Len(output) > 0 /\ trim(output[Len(output)].text) = <<>>
    THEN popTrailingBlank(SubSeq(output, 1, Len(output) - 1))
    ELSE output

extractErrorBlock(entries, startRow, matchRow, testName) ==
    LET lines == buildLogEntries(entries, startRow, TRUE)
        byRow == rowIndexFrom(lines, matchRow, 1)
        startIndex == IF byRow # 0 THEN byRow ELSE nameIndexFrom(lines, testName, 1)
    IN  IF startIndex = 0
        THEN [startRow |-> None, endRow |-> None, lines |-> <<>>]
        ELSE LET output == popTrailingBlank(collectBlock(lines, startIndex, startIndex, <<>>))
             IN  [startRow |-> IF Len(output) = 0 THEN None ELSE Some(output[1].row),
                  endRow |-> IF Len(output) = 0 THEN None ELSE Some(output[Len(output)].row),
                  lines |-> [n \in 1..Len(output) |-> output[n].text]]

-----------------------------------------------------------------------------
(* Test Name Extractor, Environment Label Classifier, Cross-Job Aggregator *)

\* line.replace(/^\[[^\]]+\]\s+SEP\s+/, "").trim()
normalizeTestName(line) ==
    LET P == {m \in 4..Len(line) :
                /\ line[1] = "TAG"
                /\ \E k \in 2..(m - 2) :
                    /\ \A x \in 2..k : line[x] \in Whitespace
                    /\ line[k + 1] = "SEP"
                    /\ \A x \in (k + 2)..m : line[x] \in Whitespace
                /\ (m = Len(line) \/ line[m + 1] \notin Whitespace)}
    IN  IF P = {} THEN trim(line)
        ELSE trim(SubSeq(line, (CHOOSE m \in P : TRUE) + 1, Len(line)))

\* jobName.toLowerCase().includes(word), a job name being a sequence of words
nameIncludes(jobName, word) == \E i \in 1..Len(jobName) : Lower(jobName[i]) = word

\* the classifier with the safari-or-webkit test made first
normalizeJobLabelWebkitFirst(jobName) ==
    LET isIframe == nameIncludes(jobName, "frame_with_picture") \/ nameIncludes(jobName, "iframe")
        base == IF nameIncludes(jobName, "safari") \/ nameIncludes(jobName, "webkit")
                THEN Some("webkit")
                ELSE IF nameIncludes(jobName, "chromium") THEN Some("chromium")
                ELSE IF nameIncludes(jobName, "firefox") THEN Some("firefox")
                ELSE IF nameIncludes(jobName, "mobile") \/ nameIncludes(jobName, "iphone")
                     THEN Some("mobile")
                ELSE None
    IN  IF base = None THEN jobName
        ELSE IF isIframe THEN <<The(base), " (", "iframe)">> ELSE <<The(base)>>

\* the classifier with the iframe suffix put on a raw job name as well
normalizeJobLabelSuffixAlways(jobName) ==
    LET isIframe == nameIncludes(jobName, "frame_with_picture") \/ nameIncludes(jobName, "iframe")
        base == IF nameIncludes(jobName, "chromium") THEN <<"chromium">>
                ELSE IF nameIncludes(jobName, "firefox") THEN <<"firefox">>
                ELSE IF nameIncludes(jobName, "safari") \/ nameIncludes(jobName, "webkit")
                     THEN <<"webkit">>
                ELSE IF nameIncludes(jobName, "mobile") \/ nameIncludes(jobName, "iphone")
                     THEN <<"mobile">>
                ELSE jobName
    IN  IF isIframe THEN base \o <<" (", "iframe)">> ELSE base

\* a label is <<base>>, <<base, " (", "iframe)">> or the raw job name
normalizeJobLabel(jobName) ==
    LET isIframe == nameIncludes(jobName, "frame_with_picture") \/ nameIncludes(jobName, "iframe")
        base == IF nameIncludes(jobName, "chromium") THEN Some("chromium")
                ELSE IF nameIncludes(jobName, "firefox") THEN Some("firefox")
                ELSE IF nameIncludes(jobName, "safari") \/ nameIncludes(jobName, "webkit")
                     THEN Some("webkit")
                ELSE IF nameIncludes(jobName, "mobile") \/ nameIncludes(jobName, "iphone")
                     THEN Some("mobile")
                ELSE None
    IN  IF base = None THEN jobName
        ELSE IF isIframe THEN <<The(base), " (", "iframe)">> ELSE <<The(base)>>

\* the collation order of the tokens that names and labels are made of
Alphabet ==
    <<"SP", "CR", "ESC", " (", "HASH", "TAG", "SEP", "NUM",
      "chromium", "Chromium", "e2e", "failed", "FAILED", "firefox", "flaky",
      "frame_with_picture", "iframe", "IFrame", "iframe)",
      "iphone", "lint", "mobile", "passed", "playwright", "Playwright", "retry", "Retry",
      "safari", "Safari", "skipped", "t1", "t2", "t3", "unit", "w", "webkit">>

\* "t3d" spells the word "t3" with decomposed characters: the two are distinct
\* strings that are canonically equivalent, which localeCompare reports as equal
CanonicalForm(t) == IF t = "t3d" THEN "t3" ELSE t

RankOf(t) == CHOOSE i \in 1..Len(Alphabet) : Alphabet[i] = CanonicalForm(t)

\* a.localeCompare(b): negative, zero or positive
RECURSIVE localeCompare(_, _)
localeCompare(a, b) ==
    IF a = <<>> /\ b = <<>> THEN 0
    ELSE IF a = <<>> THEN -1
    ELSE IF b = <<>> THEN 1
    ELSE IF RankOf(a[1]) # RankOf(b[1]) THEN RankOf(a[1]) - RankOf(b[1])
    ELSE localeCompare(Tail(a), Tail(b))

\* the buckets in alphabetical order
baseOrderAlphabetical == <<"chromium", "firefox", "mobile", "webkit">>

baseOrder == <<"chromium", "mobile", "firefox", "webkit">>

\* a.split(" (")
RECURSIVE splitParen(_, _, _)
splitParen(label, i, part) ==
    IF i > Len(label) THEN <<part>>
    ELSE IF label[i] = " (" THEN <<part>> \o splitParen(label, i + 1, <<>>)
    ELSE splitParen(label, i + 1, Append(part, label[i]))

baseIndex(label) ==
    LET base == splitParen(label, 1, <<>>)[1]
        I == {i \in 1..Len(baseOrder) : base = <<baseOrder[i]>>}
    IN  IF I = {} THEN Len(baseOrder) ELSE (CHOOSE i \in I : TRUE) - 1

contextRank(label) ==
    LET parts == splitParen(label, 1, <<>>)
    IN  IF Len(parts) >= 2 /\ parts[2] # <<>> /\ parts[2][1] \in {"iframe", "iframe)"}
        THEN 1 ELSE 0

\* the comparator of sortLabels
compareLabels(a, b) ==
    IF baseIndex(a) # baseIndex(b) THEN baseIndex(a) - baseIndex(b)
    ELSE IF contextRank(a) # contextRank(b) THEN contextRank(a) - contextRank(b)
    ELSE localeCompare(a, b)

\* Array.prototype.sort is stable: x goes after the elements that do not follow it
RECURSIVE insertLabel(_, _)
insertLabel(sorted, x) ==
    IF sorted = <<>> THEN <<x>>
    ELSE IF compareLabels(sorted[Len(sorted)], x) <= 0 THEN Append(sorted, x)
    ELSE Append(insertLabel(SubSeq(sorted, 1, Len(sorted) - 1), x), sorted[Len(sorted)])

RECURSIVE sortLabelsFrom(_, _, _)
sortLabelsFrom(labels, i, sorted) ==
    IF i > Len(labels) THEN sorted
    ELSE sortLabelsFrom(labels, i + 1, insertLabel(sorted, labels[i]))

sortLabels(labels) == sortLabelsFrom(labels, 1, <<>>)

\* new Set(array), as the array of its elements in insertion order
RECURSIVE uniqueFrom(_, _, _)
uniqueFrom(items, i, seen) ==
    IF i > Len(items) THEN seen
    ELSE IF \E k \in 1..Len(seen) : seen[k] = items[i] THEN uniqueFrom(items, i + 1, seen)
    ELSE uniqueFrom(items, i + 1, Append(seen, items[i]))

\* the map with an array of labels in place of the Set
mapAddToArray(map, testName, label) ==
    IF \E k \in 1..Len(map) : map[k].testName = testName
    THEN [k \in 1..Len(map) |->
            IF map[k].testName = testName
            THEN [map[k] EXCEPT !.labels = Append(map[k].labels, label)]
            ELSE map[k]]
    ELSE Append(map, [testName |-> testName, labels |-> <<label>>])

\* map.get(testName).add(label), the map being its entries in insertion order
mapAdd(map, testName, label) ==
    IF \E k \in 1..Len(map) : map[k].testName = testName
    THEN [k \in 1..Len(map) |->
            IF map[k].testName = testName
            THEN [map[k] EXCEPT !.labels = uniqueFrom(Append(map[k].labels, label), 1, <<>>)]
            ELSE map[k]]
    ELSE Append(map, [testName |-> testName, labels |-> <<label>>])

\* the inner loop of buildTestFailureMap over result.tests
RECURSIVE addTestsFrom(_, _, _, _)
addTestsFrom(map, tests, label, i) ==
    IF i > Len(tests) THEN map
    ELSE LET testName == normalizeTestName(tests[i])
         IN  IF testName = <<>> THEN addTestsFrom(map, tests, label, i + 1)
             ELSE addTestsFrom(mapAdd(map, testName, label), tests, label, i + 1)

RECURSIVE buildTestFailureMapFrom(_, _, _)
buildTestFailureMapFrom(results, i, map) ==
    IF i > Len(results) THEN map
    ELSE buildTestFailureMapFrom(results, i + 1,
            addTestsFrom(map, results[i].tests, results[i].label, 1))

buildTestFailureMap(results) == buildTestFailureMapFrom(results, 1, <<>>)

\* the comparator of testsByTest: b.count - a.count || a.testName.localeCompare(b.testName)
compareEntries(a, b) ==
    IF b.count - a.count # 0 THEN b.count - a.count
    ELSE localeCompare(a.testName, b.testName)

RECURSIVE insertEntry(_, _)
insertEntry(sorted, x) ==
    IF sorted = <<>> THEN <<x>>
    ELSE IF compareEntries(sorted[Len(sorted)], x) <= 0 THEN Append(sorted, x)
    ELSE Append(insertEntry(SubSeq(sorted, 1, Len(sorted) - 1), x), sorted[Len(sorted)])

RECURSIVE sortEntriesFrom(_, _, _)
sortEntriesFrom(entries, i, sorted) ==
    IF i > Len(entries) THEN sorted
    ELSE sortEntriesFrom(entries, i + 1, insertEntry(sorted, entries[i]))

\* testsByTest.filter(entry => entry.count === labelCount && labelCount > 0)
failingEverywhere(testsByTest, labelCount) ==
    SelectSeq(testsByTest, LAMBDA entry : entry.count = labelCount /\ labelCount > 0)

\* testsByTest.filter(entry => entry.count > 1 && entry.count < labelCount)
failingMultiple(testsByTest, labelCount) ==
    SelectSeq(testsByTest, LAMBDA entry : entry.count > 1 /\ entry.count < labelCount)

\* testsByTest.filter(entry => entry.count === 1)
failingSingle(testsByTest, labelCount) ==
    SelectSeq(testsByTest, LAMBDA entry : entry.count = 1)

buildSummaryData(results) ==
    LET labels == sortLabels(uniqueFrom([i \in 1..Len(results) |-> results[i].label], 1, <<>>))
        testMap == buildTestFailureMap(results)
        testsByTest ==
            sortEntriesFrom([k \in 1..Len(testMap) |->
                                [testName |-> testMap[k].testName,
                                 labels |-> sortLabels(testMap[k].labels),
                                 count |-> Len(testMap[k].labels)]], 1, <<>>)
        labelCount == Len(labels)
        withError == SelectSeq(results, LAMBDA rec : rec.error # None)
    IN  [failedJobs |-> Len(results),
         environments |-> labels,
         uniqueFailingTests |-> Len(testsByTest),
         testsFailingEverywhere |-> failingEverywhere(testsByTest, labelCount),
         testsFailingMultiple |-> failingMultiple(testsByTest, labelCount),
         testsFailingSingle |-> failingSingle(testsByTest, labelCount),
         jobErrors |-> [k \in 1..Len(withError) |->
                            [jobName |-> withError[k].jobName, error |-> The(withError[k].error)]],
         testsByTest |-> testsByTest]

-----------------------------------------------------------------------------
(* Result Cache *)

CACHE_VERSION == 4

\* the identity the invocation runs with: --org, --pipeline, --build, --server
Request == [orgSlug |-> "org", pipelineSlug |-> "pipe", buildNumber |-> "7", serverName |-> "srv"]

\* Object.fromEntries(jobs.map(job => [job.id, job.state ?? "unknown"])): a later
\* job of the same id overwrites an earlier one
buildJobStates(playwrightJobs) ==
    LET ids == {playwrightJobs[i].id : i \in 1..Len(playwrightJobs)}
        last(id) == CHOOSE i \in 1..Len(playwrightJobs) :
                        /\ playwrightJobs[i].id = id
                        /\ \A k \in 1..Len(playwrightJobs) : playwrightJobs[k].id = id => k <= i
    IN  [id \in ids |-> IF playwrightJobs[last(id)].state = None THEN "unknown"
                        ELSE The(playwrightJobs[last(id)].state)]

\* object[key]: None stands for undefined
lookup(object, key) == IF key \in DOMAIN object THEN Some(object[key]) ELSE None

\* the comparison without the key-count test
areJobStatesEqualNoLength(left, right) ==
    \A key \in DOMAIN left : lookup(left, key) = lookup(right, key)

areJobStatesEqual(left, right) ==
    IF Cardinality(DOMAIN left) # Cardinality(DOMAIN right) THEN FALSE
    ELSE \A key \in DOMAIN left : lookup(left, key) = lookup(right, key)

\* an entry is valid whatever identity it records
isCacheValidForAnyone(cacheData, request, jobStates) ==
    IF cacheData.version # CACHE_VERSION THEN FALSE
    ELSE IF cacheData.meta = None THEN FALSE
    ELSE IF The(cacheData.meta).jobStates = None THEN FALSE
    ELSE areJobStatesEqual(The(The(cacheData.meta).jobStates), jobStates)

\* cacheData is the parsed file: an entry whose meta and meta.jobStates are optional
isCacheValid(cacheData, request, jobStates) ==
    IF cacheData.version # CACHE_VERSION THEN FALSE
    ELSE IF cacheData.meta = None THEN FALSE
    ELSE LET meta == The(cacheData.meta)
         IN  IF \/ meta.orgSlug # request.orgSlug
                \/ meta.pipelineSlug # request.pipelineSlug
                \/ meta.buildNumber # request.buildNumber
             THEN FALSE
             ELSE IF meta.serverName # request.serverName THEN FALSE
             ELSE IF meta.jobStates = None THEN FALSE
             ELSE areJobStatesEqual(The(meta.jobStates), jobStates)

-----------------------------------------------------------------------------
(* The Buildkite MCP server behind mcporter: logs are rows 0, 1, 2, ... *)

DEFAULT_SEARCH_LIMIT == 80
DEFAULT_READ_LIMIT == 120
DEFAULT_ERROR_SEARCH_LIMIT == 20
DEFAULT_ERROR_CONTEXT == 2
DEFAULT_ERROR_READ_LIMIT == 200
SummaryLookBack == 3

\* how a reply of mcporterCall ends: the call throws, the reply has isError,
\* the reply is null (empty stdout), or it is the tool's result
ReplyKinds == {"throw", "isError", "null", "ok"}

\* how the read_logs reply numbers its entries: field r, field row, or not at all
RowStyles == {"r", "row", "none"}

\* DEFAULT_PATTERN \b\d+ failed\b as the server matches it on the raw line
matchesDefaultPattern(raw) ==
    \E i \in 1..(Len(raw) - 2) :
        /\ raw[i] = "NUM" /\ raw[i + 1] = "SP" /\ raw[i + 2] = "failed"
        /\ (i = 1 \/ ~IsWordTok(raw[i - 1]))
        /\ (i + 2 = Len(raw) \/ ~IsWordTok(raw[i + 3]))

\* the patterns main hands to search_logs: --pattern, and the escaped test name
DEFAULT_PATTERN == [kind |-> "regex"]
buildTestSearchPattern(testName) == [kind |-> "literal", text |-> testName]

matchesPattern(pattern, raw) ==
    IF pattern.kind = "regex" THEN matchesDefaultPattern(raw) ELSE includes(raw, pattern.text)

\* search_logs(reverse: true, limit): the matching rows, the last one first
RECURSIVE searchFrom(_, _, _, _, _)
searchFrom(log, pattern, i, limit, found) ==
    IF i < 1 \/ Len(found) >= limit THEN found
    ELSE IF matchesPattern(pattern, log[i])
         THEN searchFrom(log, pattern, i - 1, limit,
                         Append(found, [row_number |-> Some(i - 1), content |-> log[i]]))
    ELSE searchFrom(log, pattern, i - 1, limit, found)

searchLogs(log, pattern, limit) == searchFrom(log, pattern, Len(log), limit, <<>>)

\* read_logs(seek, limit): the entries of rows seek .. seek + limit - 1
readLogs(log, seek, limit, style) ==
    LET n == IF Len(log) - seek < 0 THEN 0
             ELSE IF Len(log) - seek < limit THEN Len(log) - seek ELSE limit
    IN  [i \in 1..n |->
            [c |-> log[seek + i],
             r |-> IF style = "r" THEN Some(seek + i - 1) ELSE None,
             row |-> IF style = "row" THEN Some(seek + i - 1) ELSE None]]

-----------------------------------------------------------------------------
(* main *)

\* ["org", "pipeline", "build"].filter(key => !args[key]).length > 0
validateRequiredArgsThrows(args) == ~(args.org /\ args.pipeline /\ args.build)

\* errorFor and jobId are "absent", "empty" (the option with "" or with nothing
\* after it), "blank" (only white space) or "given"
validateErrorArgsThrows(args) ==
    IF args.errorFor \in {"absent", "empty"} THEN FALSE
    ELSE IF args.errorFor = "blank" THEN TRUE
    ELSE args.jobId # "given"

\* the command lines tried: --job-id, which only the error lookup reads, comes
\* with a test name after --error-for
ArgsSet ==
    {a \in [help : BOOLEAN, parseThrows : BOOLEAN, org : BOOLEAN, pipeline : BOOLEAN,
            build : BOOLEAN, errorFor : {"absent", "empty", "blank", "given"},
            jobId : {"absent", "blank", "given"}] :
        a.errorFor \in {"absent", "empty"} => a.jobId = "absent"}

\* build.jobs.filter(name is a string containing "playwright").map(...)
selectPlaywrightJobs(rawJobs) ==
    LET kept == SelectSeq(rawJobs,
                    LAMBDA job : job.name # None /\ nameIncludes(The(job.name), "playwright"))
    IN  [i \in 1..Len(kept) |-> [id |-> kept[i].id, name |-> The(kept[i].name), state |-> kept[i].state]]

filterFailedPlaywrightJobs(playwrightJobs) ==
    SelectSeq(playwrightJobs, LAMBDA job : job.state = Some("failed"))

\* the first result whose stripped content matches /\b\d+\s+failed\b/i
RECURSIVE findFailedSummaryRowFrom(_, _)
findFailedSummaryRowFrom(results, i) ==
    IF i > Len(results) THEN None
    ELSE IF isFailedSummaryText(stripAnsi(results[i].content)) THEN results[i].row_number
    ELSE findFailedSummaryRowFrom(results, i + 1)

findFailedSummaryRow(results) == findFailedSummaryRowFrom(results, 1)

\* the record main pushes for a job whose extraction step failed
errorRecord(job, message) ==
    [jobName |-> job.name, jobId |-> job.id, label |-> normalizeJobLabel(job.name),
     state |-> job.state, failedLine |-> None, failedLineRow |-> None,
     tests |-> <<>>, testEntries |-> <<>>, error |-> Some(message)]

\* the record main pushes after extractFailedTests
extractedRecord(job, extracted) ==
    [jobName |-> job.name, jobId |-> job.id, label |-> normalizeJobLabel(job.name),
     state |-> job.state, failedLine |-> extracted.failedLine,
     failedLineRow |-> extracted.failedLineRow,
     tests |-> extracted.tests, testEntries |-> extracted.testEntries, error |-> None]

\* the entry writeCache stores
cacheEntry(request, jobStates, build, summary, results) ==
    [kind |-> "entry", version |-> CACHE_VERSION,
     meta |-> Some([orgSlug |-> request.orgSlug, pipelineSlug |-> request.pipelineSlug,
                    buildNumber |-> request.buildNumber, serverName |-> request.serverName,
                    jobStates |-> Some(jobStates)]),
     payload |-> [build |-> build, summary |-> summary, jobs |-> results]]

\* the documents console.log writes
UsageDoc == [kind |-> "usage"]
SummaryDoc(build, summary, results, cached) ==
    [kind |-> "summary", build |-> build, summary |-> summary, jobs |-> results, cached |-> cached]
ErrorDoc(matchRow, block, build) ==
    [kind |-> "error", matchRow |-> matchRow, startRow |-> block.startRow,
     endRow |-> block.endRow, lines |-> block.lines, build |-> build]

\* the invocation ends with a message on stderr and process.exitCode = 1
Fail(message) ==
    /\ stderr' = Some(message)
    /\ exitCode' = 1
    /\ pc' = "done"

MaxBuildJobs == 2

BuildJobNames == {<<"Playwright", "chromium">>, <<"playwright", "firefox", "iframe">>, <<"lint">>}

BuildJobStates == {Some("failed"), Some("running"), None}

\* the jobs arrays get_build may return: job i has id i
Builds ==
    UNION {[1..n -> [name : {Some(nm) : nm \in BuildJobNames}, state : BuildJobStates]] :
            n \in 0..MaxBuildJobs}

withIds(build) == [i \in 1..Len(build) |-> [id |-> i, name |-> build[i].name, state |-> build[i].state]]

\* the log lines of the sample job logs
LineOther == <<"w">>
LineFailed == <<"SP", "NUM", "SP", "failed">>
LineFailedAnsi == <<"ESC", "NUM", "SP", "failed", "ESC">>
LineFlaky == <<"SP", "NUM", "SP", "flaky">>
LinePassed == <<"SP", "NUM", "SP", "passed">>
LineTest1 == <<"SP", "TAG", "SP", "SEP", "SP", "t1">>
LineTest2 == <<"SP", "TAG", "SP", "SEP", "SP", "t2">>

\* a report, a report whose list holds a second "N failed" line, and no report
JobLogs ==
    { <<LineOther, LineFailed, LineTest1, LineFlaky, LineTest2>>,
      <<LineFailed, LineTest2, LineFailedAnsi, LineTest1, LinePassed>>,
      <<LineOther>> }

\* --error-for: the test name looked up
TestName == <<"t1">>

MainErrLogs ==
    { <<LineTest1, LineOther, LineFailed, LineTest1>>,
      <<LineOther, LineFailed>> }

MainFailedLineRows == {None, Some(2)}

\* parseArgs, validateRequiredArgs, validateErrorArgs
Start ==
    /\ pc = "start"
    /\ \E args \in ArgsSet :
        /\ argv' = Some(args)
        /\ IF args.parseThrows
           THEN /\ Fail("Error: invalid arguments")
                /\ stdout' = Some(UsageDoc)
                /\ UNCHANGED <<mode, eLog, eFailedLineRow>>
           ELSE IF args.help
           THEN /\ stdout' = Some(UsageDoc)
                /\ pc' = "done"
                /\ UNCHANGED <<exitCode, stderr, mode, eLog, eFailedLineRow>>
           ELSE IF validateRequiredArgsThrows(args)
           THEN /\ Fail("Error: missing required args")
                /\ stdout' = Some(UsageDoc)
                /\ UNCHANGED <<mode, eLog, eFailedLineRow>>
           ELSE IF validateErrorArgsThrows(args)
           THEN /\ Fail("Error: missing required args for --error-for")
                /\ stdout' = Some(UsageDoc)
                /\ UNCHANGED <<mode, eLog, eFailedLineRow>>
           ELSE IF args.errorFor = "given"
           THEN /\ mode' = "error"
                /\ pc' = "errFetchBuild"
                /\ eLog' \in MainErrLogs
                /\ eFailedLineRow' \in MainFailedLineRows
                /\ UNCHANGED <<exitCode, stdout, stderr>>
           ELSE /\ mode' = "summary"
                /\ pc' = "fetchBuild"
                /\ UNCHANGED <<exitCode, stdout, stderr, eLog, eFailedLineRow>>
    /\ UNCHANGED <<disk, runs, browser, dVars, xVars, eSearch, eMatchRow, eSlice, calls, cacheFile, mVars>>

\* summary mode: fetchBuild, extractBuildInfo, selectPlaywrightJobs
FetchBuild ==
    /\ pc = "fetchBuild"
    /\ \E kind \in ReplyKinds :
        /\ calls' = Append(calls, [tool |-> "get_build", job |-> 0, reply |-> kind])
        /\ IF kind \in {"throw", "isError"}
           THEN Fail("Failed to fetch build") /\ UNCHANGED <<buildInfo, buildJobs, jobs>>
           ELSE IF kind = "null"
           THEN Fail("Failed to parse build response") /\ UNCHANGED <<buildInfo, buildJobs, jobs>>
           ELSE \E hasJobsArray \in BOOLEAN :
                   IF ~hasJobsArray
                   THEN Fail("Failed to parse build response") /\ UNCHANGED <<buildInfo, buildJobs, jobs>>
                   ELSE \E build \in Builds :
                           /\ buildInfo' = Some("build")
                           /\ buildJobs' = withIds(build)
                           /\ jobs' = selectPlaywrightJobs(withIds(build))
                           /\ pc' = "loadCache"
                           /\ UNCHANGED <<exitCode, stderr>>
    /\ UNCHANGED <<rVars, xVars, eVars, mode, cacheFile, stdout, jobIdx, jobLog, summaryRow, jobResults>>

\* buildJobStates, loadCache, isCacheValid and the cache hit
LoadCache ==
    /\ pc = "loadCache"
    /\ calls' = Append(calls, [tool |-> "readFile", job |-> 0,
                               reply |-> IF cacheFile.kind = "corrupt" THEN "throw"
                                         ELSE IF cacheFile.kind = "missing" THEN "ENOENT"
                                         ELSE "ok"])
    /\ IF cacheFile.kind = "corrupt"
       THEN Fail("Unexpected failure") /\ UNCHANGED <<stdout, jobIdx>>
       ELSE IF /\ cacheFile.kind = "entry"
               /\ isCacheValid(cacheFile, Request, buildJobStates(jobs))
       THEN /\ stdout' = Some(SummaryDoc(cacheFile.payload.build, cacheFile.payload.summary,
                                         cacheFile.payload.jobs, TRUE))
            /\ pc' = "done"
            /\ UNCHANGED <<exitCode, stderr, jobIdx>>
       ELSE /\ jobIdx' = 1
            /\ pc' = IF Len(filterFailedPlaywrightJobs(jobs)) = 0 THEN "writeCache" ELSE "searchLogs"
            /\ UNCHANGED <<exitCode, stderr, stdout>>
    /\ UNCHANGED <<rVars, xVars, eVars, mode, cacheFile, buildInfo, buildJobs, jobs, jobLog,
                   summaryRow, jobResults>>

\* jobResults.push(record); break
PushAndBreak(record) ==
    /\ jobResults' = Append(jobResults, record)
    /\ jobIdx' = jobIdx + 1
    /\ pc' = "writeCache"
    /\ jobLog' = <<>>
    /\ summaryRow' = None

\* jobResults.push(record); continue
Push(record) ==
    /\ jobResults' = Append(jobResults, record)
    /\ jobIdx' = jobIdx + 1
    /\ pc' = IF jobIdx = Len(filterFailedPlaywrightJobs(jobs)) THEN "writeCache" ELSE "searchLogs"
    /\ jobLog' = <<>>
    /\ summaryRow' = None

\* the iteration with a failed search tried once more before the record is pushed
SearchLogsRetrying ==
    /\ pc = "searchLogs"
    /\ LET job == filterFailedPlaywrightJobs(jobs)[jobIdx]
           tried == \E i \in DOMAIN calls :
                        calls[i].tool = "search_logs" /\ calls[i].job = job.id
       IN  \E kind \in ReplyKinds, log \in JobLogs :
             /\ calls' = Append(calls, [tool |-> "search_logs", job |-> job.id, reply |-> kind])
             /\ IF kind \in {"throw", "isError"}
                THEN IF tried
                     THEN Push(errorRecord(job, "Failed to search logs"))
                     ELSE UNCHANGED <<pc, jobIdx, jobLog, summaryRow, jobResults>>
                ELSE LET results == IF kind = "null" THEN <<>>
                                    ELSE searchLogs(log, DEFAULT_PATTERN, DEFAULT_SEARCH_LIMIT)
                         row == findFailedSummaryRow(results)
                     IN  IF row = None
                         THEN Push(errorRecord(job, "No failed summary line found in search results."))
                         ELSE /\ jobLog' = log
                              /\ summaryRow' = row
                              /\ pc' = "readLogs"
                              /\ UNCHANGED <<jobIdx, jobResults>>
    /\ UNCHANGED <<rVars, xVars, eVars, mode, cacheFile, buildInfo, buildJobs, jobs, exitCode, stdout,
                   stderr>>

\* one iteration of the for loop up to the read_logs call
SearchLogs ==
    /\ pc = "searchLogs"
    /\ LET job == filterFailedPlaywrightJobs(jobs)[jobIdx]
       IN  \E kind \in ReplyKinds, log \in JobLogs :
             /\ calls' = Append(calls, [tool |-> "search_logs", job |-> job.id, reply |-> kind])
             /\ IF kind \in {"throw", "isError"}
                   THEN Push(errorRecord(job, "Failed to search logs"))
                   ELSE LET results == IF kind = "null" THEN <<>>
                                       ELSE searchLogs(log, DEFAULT_PATTERN, DEFAULT_SEARCH_LIMIT)
                            row == findFailedSummaryRow(results)
                        IN  IF row = None
                            THEN Push(errorRecord(job, "No failed summary line found in search results."))
                            ELSE /\ jobLog' = log
                                 /\ summaryRow' = row
                                 /\ pc' = "readLogs"
                                 /\ UNCHANGED <<jobIdx, jobResults>>
    /\ UNCHANGED <<rVars, xVars, eVars, mode, cacheFile, buildInfo, buildJobs, jobs, exitCode, stdout,
                   stderr>>

\* the rest of the iteration: read_logs, extractFailedTests, push
ReadLogs ==
    /\ pc = "readLogs"
    /\ LET job == filterFailedPlaywrightJobs(jobs)[jobIdx]
           seekRow == IF The(summaryRow) - SummaryLookBack > 0
                      THEN The(summaryRow) - SummaryLookBack ELSE 0
       IN  \E kind \in ReplyKinds, style \in RowStyles :
             /\ calls' = Append(calls, [tool |-> "read_logs", job |-> job.id, reply |-> kind])
             /\ IF kind \in {"throw", "isError"}
                   THEN Push(errorRecord(job, "Failed to read logs"))
                   ELSE LET entries == IF kind = "null" THEN <<>>
                                       ELSE readLogs(jobLog, seekRow, DEFAULT_READ_LIMIT, style)
                        IN  Push(extractedRecord(job, extractFailedTests(entries, seekRow)))
    /\ UNCHANGED <<rVars, xVars, eVars, mode, cacheFile, buildInfo, buildJobs, jobs, exitCode, stdout,
                   stderr>>

\* buildSummaryData, writeCache, console.log
WriteCache ==
    /\ pc = "writeCache"
    /\ LET summary == buildSummaryData(jobResults)
       IN  \E written \in BOOLEAN :
            /\ calls' = Append(calls, [tool |-> "writeFile", job |-> 0,
                                       reply |-> IF written THEN "ok" ELSE "throw"])
            /\ IF written
               THEN /\ cacheFile' = cacheEntry(Request, buildJobStates(jobs), buildInfo, summary,
                                               jobResults)
                    /\ stdout' = Some(SummaryDoc(buildInfo, summary, jobResults, FALSE))
                    /\ pc' = "done"
                    /\ UNCHANGED <<exitCode, stderr>>
               ELSE /\ Fail("Unexpected failure")
                    /\ cacheFile' \in {cacheFile, [kind |-> "corrupt"]}
                    /\ UNCHANGED stdout
    /\ UNCHANGED <<rVars, xVars, eVars, mode, mVars>>

\* error lookup: fetchBuild, whose failure leaves buildInfo null
ErrFetchBuild ==
    /\ pc = "errFetchBuild"
    /\ \E kind \in ReplyKinds :
        /\ calls' = Append(calls, [tool |-> "get_build", job |-> 0, reply |-> kind])
        /\ buildInfo' = IF kind \in {"throw", "isError"} THEN None ELSE Some("build")
    /\ pc' = "errSearch"
    /\ UNCHANGED <<rVars, xVars, eVars, mode, cacheFile, exitCode, stdout, stderr,
                   buildJobs, jobs, jobIdx, jobLog, summaryRow, jobResults>>

\* fetchErrorPayload up to the read_logs call
ErrSearchLogs ==
    /\ pc = "errSearch"
    /\ \E kind \in ReplyKinds :
        /\ calls' = Append(calls, [tool |-> "search_logs", job |-> 1, reply |-> kind])
        /\ IF kind \in {"throw", "isError"}
           THEN /\ Fail("Failed to fetch error details: failed to search logs")
                /\ UNCHANGED <<eSearch, eMatchRow>>
           ELSE LET results == IF kind = "null" THEN <<>>
                               ELSE searchLogs(eLog, buildTestSearchPattern(TestName),
                                               DEFAULT_ERROR_SEARCH_LIMIT)
                    matchRow == findTestMatchRow(results, eFailedLineRow)
                IN  /\ eSearch' = Some([i \in 1..Len(results) |-> results[i].row_number])
                    /\ eMatchRow' = matchRow
                    /\ IF matchRow = None
                       THEN Fail("Failed to fetch error details: no matching log entry found for test")
                       ELSE pc' = "errRead" /\ UNCHANGED <<exitCode, stderr>>
    /\ UNCHANGED <<rVars, xVars, eLog, eFailedLineRow, eSlice, mode, cacheFile, stdout, mVars>>

\* the rest of fetchErrorPayload, and the output of main
ErrReadLogs ==
    /\ pc = "errRead"
    /\ LET matchRow == The(eMatchRow)
           seekRow == IF matchRow - DEFAULT_ERROR_CONTEXT > 0
                      THEN matchRow - DEFAULT_ERROR_CONTEXT ELSE 0
       IN  \E kind \in ReplyKinds, style \in RowStyles :
         /\ calls' = Append(calls, [tool |-> "read_logs", job |-> 1, reply |-> kind])
         /\ IF kind \in {"throw", "isError"}
               THEN /\ Fail("Failed to fetch error details: failed to read logs")
                    /\ UNCHANGED <<eSlice, stdout>>
               ELSE LET entries == IF kind = "null" THEN <<>>
                                   ELSE readLogs(eLog, seekRow, DEFAULT_ERROR_READ_LIMIT, style)
                        block == extractErrorBlock(entries, seekRow, matchRow, TestName)
                    IN  /\ eSlice' = Some(entries)
                        /\ IF Len(block.lines) = 0
                           THEN /\ Fail("Failed to fetch error details: failed to extract error block for test")
                                /\ UNCHANGED stdout
                           ELSE /\ stdout' = Some(ErrorDoc(matchRow, block, buildInfo))
                                /\ pc' = "done"
                                /\ UNCHANGED <<exitCode, stderr>>
    /\ UNCHANGED <<rVars, xVars, eLog, eFailedLineRow, eSearch, eMatchRow, mode, cacheFile, mVars>>

\* the calls of a run up to the end of its loop over n jobs, none having failed
callsAfterLoop(n) ==
    <<[tool |-> "get_build", job |-> 0, reply |-> "ok"],
      [tool |-> "readFile", job |-> 0, reply |-> "ENOENT"]>>
    \o [k \in 1..(2 * n) |->
            [tool |-> IF k % 2 = 1 THEN "search_logs" ELSE "read_logs",
             job |-> (k + 1) \div 2, reply |-> "ok"]]

\* the variables of an invocation before main runs
IdleMain ==
    /\ exitCode = 0 /\ stdout = None /\ stderr = None
    /\ calls = <<>>
    /\ buildInfo = None /\ buildJobs = <<>> /\ jobs = <<>> /\ jobIdx = 0 /\ jobLog = <<>> /\ summaryRow = None
    /\ jobResults = <<>>

IdleError ==
    /\ eLog = <<>> /\ eFailedLineRow = None /\ eSearch = None /\ eMatchRow = None /\ eSlice = None

IdleExtensions ==
    /\ cron = <<>> /\ fanout = <<>> /\ tracker = <<>> /\ guard = <<>>

IdleRace ==
    /\ IdleExtensions
    /\ disk = None
    /\ runs = <<>>
    /\ argv = None
    /\ browser = <<>>

IdleExtract ==
    /\ xEntries = <<>> /\ xStartRow = 0 /\ xResult = None

\* the entry an earlier invocation wrote for a build whose log searches all failed
priorEntry(rawJobs) ==
    LET playwrightJobs == selectPlaywrightJobs(withIds(rawJobs))
        failed == filterFailedPlaywrightJobs(playwrightJobs)
        results == [i \in 1..Len(failed) |-> errorRecord(failed[i], "Failed to search logs")]
    IN  cacheEntry(Request, buildJobStates(playwrightJobs), Some("build"),
                   buildSummaryData(results), results)

PriorBuilds ==
    { <<[name |-> Some(<<"Playwright", "chromium">>), state |-> Some("failed")]>>,
      <<[name |-> Some(<<"lint">>), state |-> Some("failed")],
        [name |-> Some(<<"playwright", "firefox", "iframe">>), state |-> Some("running")]>> }

MainCacheFiles ==
    {[kind |-> "missing"], [kind |-> "corrupt"]} \cup {priorEntry(b) : b \in PriorBuilds}

Init ==
    /\ pc = "start"
    /\ mode = "none"
    /\ cacheFile \in MainCacheFiles
    /\ IdleMain /\ IdleError /\ IdleExtract /\ IdleRace

Next ==
    \/ Start
    \/ FetchBuild
    \/ LoadCache
    \/ SearchLogs
    \/ ReadLogs
    \/ WriteCache
    \/ ErrFetchBuild
    \/ ErrSearchLogs
    \/ ErrReadLogs

Spec == Init /\ [][Next]_vars

-----------------------------------------------------------------------------
(* extractFailedTests applied to a log slice *)

MaxSlice == 4

XStartRow == 3

\* raw log lines a slice is drawn from
XLines ==
    { <<"ESC", "SP">>,                              \* blank once normalised
      <<"SP", "NUM", "ESC", "SP", "FAILED">>,       \* "  2 FAILED" with colour
      <<"NUM", "SP", "flaky">>,
      <<"ESC", "NUM", "SP", "SP", "passed", "SP">>,
      <<"NUM", "SP", "skipped", "ESC">>,
      <<"SP", "TAG", "SP", "SEP", "SP", "t1", "CR">>,  \* a failed test of the list
      <<"w", "NUM", "SP", "failed">> }              \* "w2 failed": no \b before the digits

XSlices == UNION {[1..n -> XLines] : n \in 0..MaxSlice}

XEntriesOf(slice, style) ==
    [i \in 1..Len(slice) |->
        [c |-> slice[i],
         r |-> IF style = "r" THEN Some(XStartRow + i) ELSE None,
         row |-> IF style = "row" THEN Some(XStartRow + i + 1) ELSE None]]

InitExtract ==
    /\ \E slice \in XSlices, style \in RowStyles : xEntries = XEntriesOf(slice, style)
    /\ xStartRow = XStartRow
    /\ xResult = None
    /\ pc = "extract" /\ mode = "none" /\ cacheFile = [kind |-> "missing"]
    /\ IdleMain /\ IdleError /\ IdleRace

ExtractFailedTests ==
    /\ xResult = None
    /\ xResult' = Some(extractFailedTests(xEntries, xStartRow))
    /\ UNCHANGED <<rVars, xEntries, xStartRow, pc, exitCode, stdout, stderr, eVars, mode, calls,
                   cacheFile, mVars>>

NextExtract == ExtractFailedTests

SpecExtract == InitExtract /\ [][NextExtract]_vars

\* the least element of a non-empty set of indices
MinOf(S) == CHOOSE i \in S : \A k \in S : i <= k

\* the n-th smallest element of S
NthOf(S, n) == CHOOSE i \in S : Cardinality({k \in S : k <= i}) = n

\* the row the read_logs reply gives the i-th entry
XRow(i) ==
    IF xEntries[i].r # None THEN The(xEntries[i].r)
    ELSE IF xEntries[i].row # None THEN The(xEntries[i].row)
    ELSE xStartRow + (i - 1)

\* the indices of the failed-summary lines of a normalised slice
FailedIdx(text) == {i \in 1..Len(text) : isFailedSummaryText(text[i])}

\* the first section-end line after line f, Len + 1 when there is none
BoundaryAfter(text, f) ==
    LET E == {i \in 1..Len(text) : i > f /\ isSectionEndText(text[i])}
    IN  IF E = {} THEN Len(text) + 1 ELSE MinOf(E)

\* C6: tests are exactly the non-blank lines after the failed-summary line and
\* before the first following "N flaky|skipped|passed" line, in log order, and
\* testEntries holds the same lines with their rows; nothing before the summary
\* line and nothing at or after the boundary is included.
C6_TestsAreFailedSection ==
    xResult # None =>
        LET res == The(xResult)
            text == [i \in 1..Len(xEntries) |-> normalizeLogLine(xEntries[i].c)]
            F == FailedIdx(text)
        IN  IF F = {}
            THEN res.failedLineRow = None /\ res.tests = <<>> /\ res.testEntries = <<>>
            ELSE LET f == MinOf(F)
                     b == BoundaryAfter(text, f)
                     kept == {i \in 1..Len(text) : i > f /\ i < b /\ text[i] # <<>>}
                 IN  /\ res.failedLineRow = Some(XRow(f))
                     /\ Len(res.tests) = Cardinality(kept)
                     /\ Len(res.testEntries) = Cardinality(kept)
                     /\ \A n \in 1..Cardinality(kept) :
                            LET i == NthOf(kept, n)
                            IN  /\ res.tests[n] = text[i]
                                /\ res.testEntries[n] = [name |-> text[i], row |-> XRow(i)]

\* a slice with a line before the summary line, a blank line and a collected
\* test after it, and a boundary line that stops the collection
C6_Witness ==
    /\ xResult # None
    /\ Len(xEntries) = 4
    /\ LET text == [i \in 1..Len(xEntries) |-> normalizeLogLine(xEntries[i].c)]
       IN  /\ ~isFailedSummaryText(text[1])
           /\ isFailedSummaryText(text[2])
           /\ text[3] # <<>> /\ ~isSectionEndText(text[3])
           /\ isSectionEndText(text[4])
    /\ Len(The(xResult).tests) = 1

-----------------------------------------------------------------------------
(* buildSummaryData applied to the job results of a build *)

MaxSummaryJobs == 3

SummaryJobNames ==
    {<<"playwright", "Chromium">>, <<"playwright", "firefox">>, <<"playwright", "safari", "iframe">>}

\* the tests arrays extractFailedTests may have returned for a job
TestLists ==
    { <<>>,
      << <<"TAG", "SP", "SEP", "SP", "t1">>, <<"TAG", "SP", "SEP", "SP">> >>,
      << <<"TAG", "SP", "SEP", "SP", "t2">>, <<"t1">> >>,
      << <<"TAG", "SP", "SEP", "SP", "t2">>, <<"t3">> >>,
      << <<"t3d">> >> }

SummaryInputs == UNION {[1..n -> [name : SummaryJobNames, tests : TestLists]] : n \in 0..MaxSummaryJobs}

\* the state of main after the for loop over the failed Playwright jobs
InitSummary ==
    /\ pc = "writeCache" /\ mode = "summary"
    /\ cacheFile = [kind |-> "missing"]
    /\ exitCode = 0 /\ stdout = None /\ stderr = None
    /\ buildInfo = Some("build")
    /\ jobLog = <<>> /\ summaryRow = None
    /\ \E input \in SummaryInputs :
        /\ buildJobs = [i \in 1..Len(input) |->
                            [id |-> i, name |-> Some(input[i].name), state |-> Some("failed")]]
        /\ jobs = [i \in 1..Len(input) |-> [id |-> i, name |-> input[i].name, state |-> Some("failed")]]
        /\ jobIdx = Len(input) + 1
        /\ calls = callsAfterLoop(Len(input))
        /\ jobResults =
            [i \in 1..Len(input) |->
                extractedRecord([id |-> i, name |-> input[i].name, state |-> Some("failed")],
                    [failedLine |-> Some(<<"NUM", "SP", "failed">>), failedLineRow |-> Some(0),
                     tests |-> input[i].tests,
                     testEntries |-> [k \in 1..Len(input[i].tests) |->
                                        [name |-> input[i].tests[k], row |-> k]]])]
    /\ IdleError /\ IdleExtract /\ IdleRace

NextSummary == WriteCache

SpecSummary == InitSummary /\ [][NextSummary]_vars

\* how many of the three category lists hold an entry of this test name
CategoriesOf(summary, testName) ==
    LET In(list) == IF \E k \in 1..Len(list) : list[k].testName = testName THEN 1 ELSE 0
    IN  In(summary.testsFailingEverywhere) + In(summary.testsFailingMultiple)
            + In(summary.testsFailingSingle)

\* C1: every entry of testsByTest is in exactly one of testsFailingEverywhere,
\* testsFailingMultiple and testsFailingSingle, and the lengths of the three
\* lists sum to testsByTest.length, for every set of job results.
C1_CategoriesPartition ==
    (stdout # None /\ The(stdout).kind = "summary") =>
        LET summary == The(stdout).summary
        IN  /\ \A k \in 1..Len(summary.testsByTest) :
                    CategoriesOf(summary, summary.testsByTest[k].testName) = 1
            /\ Len(summary.testsFailingEverywhere) + Len(summary.testsFailingMultiple)
                    + Len(summary.testsFailingSingle) = Len(summary.testsByTest)

\* the names the tests of job result i normalise to, the empty name left out
NamesOf(i) ==
    {normalizeTestName(jobResults[i].tests[k]) : k \in 1..Len(jobResults[i].tests)} \ {<<>>}

\* the labels of the job results that hold a line normalising to this name
JobsWith(testName) == {j \in 1..Len(jobResults) : testName \in NamesOf(j)}
LabelsFor(testName) == {jobResults[j].label : j \in JobsWith(testName)}

\* C14: testsByTest has one entry per test name; the labels of an entry are the
\* distinct labels of the job results with a line normalising to its name, each
\* once, count is their number, and a line normalising to the empty string
\* makes no entry.
C14_LabelsOfEachTest ==
    (stdout # None /\ The(stdout).kind = "summary") =>
        LET byTest == The(stdout).summary.testsByTest
            names == UNION {NamesOf(i) : i \in 1..Len(jobResults)}
        IN  /\ Len(byTest) = Cardinality(names)
            /\ \A k \in 1..Len(byTest) :
                    LET entry == byTest[k]
                        expected == LabelsFor(entry.testName)
                    IN  /\ entry.testName \in names
                        /\ entry.testName # <<>>
                        /\ {entry.labels[x] : x \in 1..Len(entry.labels)} = expected
                        /\ Len(entry.labels) = Cardinality(expected)
                        /\ entry.count = Cardinality(expected)
                        /\ \A m \in 1..Len(byTest) :
                                byTest[m].testName = entry.testName => m = k

\* three jobs hold t1, two of them under one label; one line normalises to ""
C14_Witness ==
    /\ stdout # None /\ The(stdout).kind = "summary"
    /\ Cardinality({i \in 1..Len(jobResults) : <<"t1">> \in NamesOf(i)}) = 3
    /\ \E i \in 1..Len(jobResults) : \E k \in 1..Len(jobResults[i].tests) :
            normalizeTestName(jobResults[i].tests[k]) = <<>>
    /\ \E k \in 1..Len(The(stdout).summary.testsByTest) :
            /\ The(stdout).summary.testsByTest[k].testName = <<"t1">>
            /\ The(stdout).summary.testsByTest[k].count = 2

\* C15: testsByTest is ordered by count descending and then by test name
\* ascending, and the list with the labels of its entries is the same for every
\* order in which the same job results are handed to buildSummaryData.
C15_OrderIndependentOfJobOrder ==
    (stdout # None /\ The(stdout).kind = "summary") =>
        LET byTest == The(stdout).summary.testsByTest
            n == Len(jobResults)
        IN  /\ \A k \in 1..(Len(byTest) - 1) :
                    \/ byTest[k].count > byTest[k + 1].count
                    \/ /\ byTest[k].count = byTest[k + 1].count
                       /\ localeCompare(byTest[k].testName, byTest[k + 1].testName) <= 0
            /\ \A p \in Permutations(1..n) :
                    buildSummaryData([i \in 1..n |-> jobResults[p[i]]]).testsByTest = byTest

-----------------------------------------------------------------------------
(* sortLabels applied to the labels of the job results of a build *)

OrderJobNames ==
    { <<"Playwright", "Chromium">>, <<"playwright", "chromium", "IFrame">>,
      <<"playwright", "mobile">>, <<"playwright", "firefox">>,
      <<"playwright", "Safari", "frame_with_picture">>,
      <<"playwright", "lint">>, <<"playwright", "e2e", " (", "iframe)">> }

OrderInputs == UNION {[1..n -> OrderJobNames] : n \in 0..MaxSummaryJobs}

\* the state of main after the for loop, every job having the same failed test
InitOrder ==
    /\ pc = "writeCache" /\ mode = "summary"
    /\ cacheFile = [kind |-> "missing"]
    /\ exitCode = 0 /\ stdout = None /\ stderr = None
    /\ buildInfo = Some("build")
    /\ jobLog = <<>> /\ summaryRow = None
    /\ \E input \in OrderInputs :
        /\ calls = callsAfterLoop(Len(input))
        /\ buildJobs = [i \in 1..Len(input) |->
                            [id |-> i, name |-> Some(input[i]), state |-> Some("failed")]]
        /\ jobs = selectPlaywrightJobs(buildJobs)
        /\ jobIdx = Len(input) + 1
        /\ jobResults =
            [i \in 1..Len(input) |->
                extractedRecord([id |-> i, name |-> input[i], state |-> Some("failed")],
                    [failedLine |-> Some(<<"NUM", "SP", "failed">>), failedLineRow |-> Some(0),
                     tests |-> << <<"TAG", "SP", "SEP", "SP", "t1">> >>,
                     testEntries |-> << [name |-> <<"TAG", "SP", "SEP", "SP", "t1">>, row |-> 1] >>])]
    /\ IdleError /\ IdleExtract /\ IdleRace

NextOrder == WriteCache

SpecOrder == InitOrder /\ [][NextOrder]_vars

\* the position of the first " (" of a label, Len + 1 when it has none
ParenAt(label) ==
    LET P == {i \in 1..Len(label) : label[i] = " ("}
    IN  IF P = {} THEN Len(label) + 1 ELSE MinOf(P)

\* 0..3 for chromium, mobile, firefox, webkit, 4 for any other base
BucketRank(label) ==
    LET base == SubSeq(label, 1, ParenAt(label) - 1)
    IN  IF base = <<"chromium">> THEN 0
        ELSE IF base = <<"mobile">> THEN 1
        ELSE IF base = <<"firefox">> THEN 2
        ELSE IF base = <<"webkit">> THEN 3
        ELSE 4

\* 1 when the text after the first " (" starts with iframe, else 0
IframeRank(label) ==
    IF ParenAt(label) < Len(label) /\ label[ParenAt(label) + 1] \in {"iframe", "iframe)"}
    THEN 1 ELSE 0

InLabelOrder(labels) ==
    \A k \in 1..(Len(labels) - 1) :
        LET a == labels[k]
            b == labels[k + 1]
        IN  \/ BucketRank(a) < BucketRank(b)
            \/ /\ BucketRank(a) = BucketRank(b)
               /\ \/ IframeRank(a) < IframeRank(b)
                  \/ IframeRank(a) = IframeRank(b) /\ localeCompare(a, b) <= 0

\* C16: summary.environments and the labels of every testsByTest entry are
\* ordered by bucket (chromium, mobile, firefox, webkit, then any other base),
\* then standalone before iframe, then lexicographically on the whole label.
C16_LabelsInBucketOrder ==
    (stdout # None /\ The(stdout).kind = "summary") =>
        LET summary == The(stdout).summary
        IN  /\ InLabelOrder(summary.environments)
            /\ \A k \in 1..Len(summary.testsByTest) : InLabelOrder(summary.testsByTest[k].labels)
            /\ {summary.environments[k] : k \in 1..Len(summary.environments)}
                    = {jobResults[i].label : i \in 1..Len(jobResults)}

\* firefox found before mobile and an iframe label before its standalone one,
\* printed as mobile, firefox and standalone, iframe
C16_Witness ==
    /\ stdout # None /\ The(stdout).kind = "summary"
    /\ Len(jobResults) = 3
    /\ jobResults[1].label = <<"firefox">>
    /\ jobResults[2].label = <<"chromium", " (", "iframe)">>
    /\ jobResults[3].label = <<"mobile">>
    /\ The(stdout).summary.environments
            = << <<"chromium", " (", "iframe)">>, <<"mobile">>, <<"firefox">> >>
    /\ The(stdout).summary.testsByTest[1].labels = The(stdout).summary.environments

-----------------------------------------------------------------------------
(* isCacheValid applied to the cache file of a build *)

CacheJobIds == {1, 2}

CacheStates == {"failed", "running", "unknown"}

CachedJobStates == UNION {[ids -> CacheStates] : ids \in SUBSET CacheJobIds}

\* the identity of the request, and the identities that differ from it in one field
CachedIdentities ==
    { Request,
      [Request EXCEPT !.orgSlug = "org2"],
      [Request EXCEPT !.pipelineSlug = "pipe2"],
      [Request EXCEPT !.buildNumber = "8"],
      [Request EXCEPT !.serverName = "srv2"] }

\* the payload of an entry whose failed jobs all had their log search fail
payloadFor(jobStates) ==
    LET n == Cardinality({id \in DOMAIN jobStates : jobStates[id] = "failed"})
        ids == {id \in DOMAIN jobStates : jobStates[id] = "failed"}
        results == [k \in 1..n |->
                        errorRecord([id |-> NthOf(ids, k), name |-> <<"playwright">>,
                                     state |-> Some("failed")], "Failed to search logs")]
    IN  [build |-> Some("build"), summary |-> buildSummaryData(results), jobs |-> results]

CacheFiles ==
    {[kind |-> "missing"], [kind |-> "corrupt"]}
    \cup {[kind |-> "entry", version |-> v, meta |-> None, payload |-> payloadFor(<<>>)] :
            v \in {CACHE_VERSION, CACHE_VERSION - 1}}
    \cup {[kind |-> "entry", version |-> v,
           meta |-> Some([orgSlug |-> id.orgSlug, pipelineSlug |-> id.pipelineSlug,
                          buildNumber |-> id.buildNumber, serverName |-> id.serverName,
                          jobStates |-> None]),
           payload |-> payloadFor(<<>>)] :
            v \in {CACHE_VERSION, CACHE_VERSION - 1}, id \in CachedIdentities}
    \cup {[kind |-> "entry", version |-> v,
           meta |-> Some([orgSlug |-> id.orgSlug, pipelineSlug |-> id.pipelineSlug,
                          buildNumber |-> id.buildNumber, serverName |-> id.serverName,
                          jobStates |-> Some(js)]),
           payload |-> payloadFor(js)] :
            v \in {CACHE_VERSION, CACHE_VERSION - 1}, id \in CachedIdentities,
            js \in CachedJobStates}

\* the state of main after the build fetch
InitCache ==
    /\ pc = "loadCache" /\ mode = "summary"
    /\ cacheFile \in CacheFiles
    /\ exitCode = 0 /\ stdout = None /\ stderr = None
    /\ calls = <<[tool |-> "get_build", job |-> 0, reply |-> "ok"]>>
    /\ buildInfo = Some("build")
    /\ \E build \in Builds :
        /\ buildJobs = withIds(build)
        /\ jobs = selectPlaywrightJobs(withIds(build))
    /\ jobIdx = 0 /\ jobLog = <<>> /\ summaryRow = None /\ jobResults = <<>>
    /\ IdleError /\ IdleExtract /\ IdleRace

NextCache == LoadCache

SpecCache == InitCache /\ [][NextCache]_vars

\* the cache file holds an entry of the current schema version for this request
\* whose jobStates has the ids and states of the jobs list
EntryMatches ==
    /\ cacheFile.kind = "entry"
    /\ cacheFile.version = CACHE_VERSION
    /\ cacheFile.meta # None
    /\ LET meta == The(cacheFile.meta)
       IN  /\ meta.orgSlug = Request.orgSlug
           /\ meta.pipelineSlug = Request.pipelineSlug
           /\ meta.buildNumber = Request.buildNumber
           /\ meta.serverName = Request.serverName
           /\ meta.jobStates # None
           /\ DOMAIN The(meta.jobStates) = {jobs[i].id : i \in 1..Len(jobs)}
           /\ \A i \in 1..Len(jobs) :
                The(meta.jobStates)[jobs[i].id] =
                    IF jobs[i].state = None THEN "unknown" ELSE The(jobs[i].state)

CacheHit == stdout # None /\ The(stdout).kind = "summary" /\ The(stdout).cached

\* C2: the cache entry is accepted if and only if its version, its four identity
\* fields and its jobStates (same job ids, same states, over every Playwright
\* job) match; any other entry starts the loop over the failed jobs afresh.
C2_CacheValidIffExact ==
    (pc # "loadCache" /\ cacheFile.kind = "entry") =>
        /\ CacheHit <=> EntryMatches
        /\ ~CacheHit => (pc \in {"searchLogs", "writeCache"} /\ jobIdx = 1 /\ jobResults = <<>>)

\* an accepted entry, and an entry rejected only for a job the cache does not know
C2_Witness ==
    /\ pc = "done" /\ CacheHit /\ Len(jobs) = 2

C2_WitnessRejected ==
    /\ pc = "searchLogs" /\ cacheFile.kind = "entry" /\ cacheFile.version = CACHE_VERSION
    /\ cacheFile.meta # None /\ The(cacheFile.meta).jobStates # None
    /\ Len(jobs) = 2
    /\ Cardinality(DOMAIN The(The(cacheFile.meta).jobStates)) = 1

-----------------------------------------------------------------------------
(* fetchErrorPayload applied to the log of a job *)

MaxLog == 4

\* raw log lines of the error section of a job log
ELines ==
    { <<"TAG", "SP", "SEP", "SP", "t1">>,              \* the header of the test looked up
      <<"SP", "TAG", "SP", "SEP", "SP", "t1", "CR">>,  \* the same, indented
      <<"TAG", "SP", "SEP", "SP", "t2">>,              \* the header of another test
      <<"SP", "ESC", "w", "ESC">>,                     \* a line of the stack trace
      <<"SP", "CR">>,                                  \* a blank line
      <<"Retry", "SP", "HASH", "NUM">>,
      <<"NUM", "SP", "failed">> }

ELogs == UNION {[1..n -> ELines] : n \in 1..MaxLog}

\* the state of main in error-lookup mode after the build fetch
InitError ==
    /\ pc = "errSearch" /\ mode = "error"
    /\ eLog \in ELogs
    /\ eFailedLineRow \in {None} \cup {Some(r) : r \in 0..MaxLog}
    /\ eSearch = None /\ eMatchRow = None /\ eSlice = None
    /\ cacheFile = [kind |-> "missing"]
    /\ exitCode = 0 /\ stdout = None /\ stderr = None
    /\ calls = <<[tool |-> "get_build", job |-> 0, reply |-> "ok"]>>
    /\ buildInfo = Some("build")
    /\ buildJobs = <<>> /\ jobs = <<>> /\ jobIdx = 0 /\ jobLog = <<>> /\ summaryRow = None
    /\ jobResults = <<>>
    /\ IdleExtract /\ IdleRace

NextError == ErrSearchLogs \/ ErrReadLogs

SpecError == InitError /\ [][NextError]_vars

\* the numeric rows of the search reply, and those findTestMatchRow may return
SearchRows == {The(The(eSearch)[i]) : i \in {k \in 1..Len(The(eSearch)) : The(eSearch)[k] # None}}
RowsBeforeSummary ==
    IF eFailedLineRow = None THEN SearchRows
    ELSE {r \in SearchRows : r < The(eFailedLineRow)}

\* C9: matchRow is the greatest search match row strictly below the failed-summary
\* row (the greatest of all when no summary row is given); when no match
\* qualifies it is null and the lookup fails with "no matching log entry found
\* for test".
C9_MatchRowIsLastBeforeSummary ==
    eSearch # None =>
        IF RowsBeforeSummary = {}
        THEN /\ eMatchRow = None
             /\ pc = "done" /\ exitCode = 1 /\ stdout = None
             /\ stderr = Some("Failed to fetch error details: no matching log entry found for test")
        ELSE /\ eMatchRow # None
             /\ The(eMatchRow) \in RowsBeforeSummary
             /\ \A r \in RowsBeforeSummary : r <= The(eMatchRow)
             /\ pc # "done" => pc = "errRead"

\* two matches below the summary row and one at or after it
C9_Witness ==
    /\ eSearch # None /\ eFailedLineRow # None /\ eMatchRow # None
    /\ Cardinality(RowsBeforeSummary) >= 2
    /\ \E r \in SearchRows : r >= The(eFailedLineRow)

\* the slice read for the lookup as the preserve normalisation shows it
SliceText == [i \in 1..Len(The(eSlice)) |-> normalizeLogLinePreserveIndent(The(eSlice)[i].c)]
SeekRow == IF The(eMatchRow) - DEFAULT_ERROR_CONTEXT > 0 THEN The(eMatchRow) - DEFAULT_ERROR_CONTEXT ELSE 0
\* the index of the match line in the slice
MatchIdx == The(eMatchRow) - SeekRow + 1

IsBlockEnd(text) == isTestHeaderLine(text) \/ isSummarySectionLine(text) \/ isRetryLine(text)

\* the first block-end line after the match line, Len + 1 when there is none
BlockEndAfter(text, s) ==
    LET E == {i \in 1..Len(text) : i > s /\ IsBlockEnd(text[i])}
    IN  IF E = {} THEN Len(text) + 1 ELSE MinOf(E)

\* C8: the block is a contiguous run of the slice that starts at the match line
\* and ends before the first later test header, summary-section line or retry
\* marker; that line and all after it are excluded, and the start line is kept
\* even when it is itself such a line.
C8_BlockStopsAtNextSection ==
    (eSlice # None /\ Len(The(eSlice)) > 0) =>
        LET text == SliceText
            s == MatchIdx
            b == BlockEndAfter(text, s)
        IN  /\ stdout # None /\ The(stdout).kind = "error"
            /\ LET lines == The(stdout).lines
               IN  /\ Len(lines) >= 1
                   /\ lines[1] = text[s]
                   /\ \A n \in 1..Len(lines) : lines[n] = text[s + n - 1]
                   /\ s + Len(lines) <= b
                   /\ \A i \in (s + Len(lines))..(b - 1) : text[i] = <<>>

\* the match line is a test header, and a retry marker with a line after it follows
C8_Witness ==
    /\ eSlice # None /\ stdout # None
    /\ LET text == SliceText
           s == MatchIdx
       IN  /\ isTestHeaderLine(text[s])
           /\ Len(text) >= s + 3
           /\ ~IsBlockEnd(text[s + 1]) /\ text[s + 1] # <<>>
           /\ isRetryLine(text[s + 2])
           /\ Len(The(stdout).lines) = 2

\* C10: the block never ends with a blank line, a blank line between two
\* non-blank lines of the block is kept, and startRow and endRow are the rows of
\* the first and the last line left once the trailing blanks are removed.
C10_TrailingBlanksTrimmed ==
    (stdout # None /\ The(stdout).kind = "error") =>
        LET text == SliceText
            s == MatchIdx
            b == BlockEndAfter(text, s)
            nonBlank == {i \in s..(b - 1) : trim(text[i]) # <<>>}
            last == CHOOSE i \in nonBlank : \A k \in nonBlank : k <= i
            doc == The(stdout)
        IN  /\ nonBlank # {}
            /\ Len(doc.lines) = last - s + 1
            /\ trim(doc.lines[Len(doc.lines)]) # <<>>
            /\ \A i \in s..last : trim(text[i]) = <<>> => doc.lines[i - s + 1] = text[i]
            /\ doc.startRow = Some(SeekRow + s - 1)
            /\ doc.endRow = Some(SeekRow + last - 1)

\* a block with a blank line inside and a blank line cut from its end
C10_Witness ==
    /\ stdout # None /\ The(stdout).kind = "error"
    /\ LET doc == The(stdout)
           text == SliceText
       IN  /\ Len(doc.lines) = 3
           /\ doc.lines[2] = <<>>
           /\ Len(text) >= MatchIdx + 3
           /\ text[MatchIdx + 3] = <<>>

-----------------------------------------------------------------------------
(* an invocation of main: the job loop, the cache and the exit code *)

IsFailedPlaywright(job) ==
    /\ job.name # None
    /\ \E i \in 1..Len(The(job.name)) : Lower(The(job.name)[i]) = "playwright"
    /\ job.state = Some("failed")

\* ids of the failed Playwright jobs of the build; the id is the position in build.jobs
FailedIds == {i \in DOMAIN buildJobs : IsFailedPlaywright(buildJobs[i])}

Failure == {"throw", "isError"}

CallsFor(tool, id) == {i \in DOMAIN calls : calls[i].tool = tool /\ calls[i].job = id}

\* the error field agrees with the replies the job's calls got
ErrorRecorded(rec) ==
    LET searches == CallsFor("search_logs", rec.jobId)
        reads == CallsFor("read_logs", rec.jobId)
    IN  /\ Cardinality(searches) = 1
        /\ (\E i \in searches : calls[i].reply \in Failure) =>
                rec.error = Some("Failed to search logs")
        /\ (\E i \in reads : calls[i].reply \in Failure) =>
                rec.error = Some("Failed to read logs")
        /\ ((\A i \in searches : calls[i].reply \notin Failure) /\ reads = {}) =>
                rec.error = Some("No failed summary line found in search results.")
        /\ rec.error # None => (rec.tests = <<>> /\ rec.failedLine = None)

\* C4: in summary mode a failed search, a failed read or a search without a
\* summary line ends up in the error field of that job's record and the loop goes
\* on: there is one record per failed Playwright job handled so far, in the order
\* of build.jobs, the exit code stays 0, and the document printed has one record
\* per failed Playwright job with summary.failedJobs counting them.
C4_OneRecordPerFailedJob ==
    (mode = "summary" /\ buildInfo # None) =>
        LET ids == FailedIds
            n == Cardinality(ids)
        IN  /\ pc \in {"searchLogs", "readLogs"} =>
                    (jobIdx <= n /\ Len(jobResults) = jobIdx - 1 /\ exitCode = 0)
            /\ pc = "writeCache" => (Len(jobResults) = n /\ exitCode = 0)
            /\ \A k \in DOMAIN jobResults :
                    /\ k <= n
                    /\ jobResults[k].jobId = NthOf(ids, k)
                    /\ ErrorRecorded(jobResults[k])
            /\ (stdout # None /\ The(stdout).kind = "summary") =>
                    LET doc == The(stdout)
                    IN  /\ Len(doc.jobs) = n
                        /\ \A k \in 1..Len(doc.jobs) : doc.jobs[k].jobId = NthOf(ids, k)
                        /\ doc.summary.failedJobs = n
                        /\ exitCode = 0

\* two failed Playwright jobs: the first one's search failed, the second one was
\* extracted, and both are in the document printed
C4_Witness ==
    /\ mode = "summary" /\ pc = "done"
    /\ stdout # None /\ The(stdout).kind = "summary" /\ ~The(stdout).cached
    /\ LET doc == The(stdout)
       IN  /\ Len(doc.jobs) = 2
           /\ doc.jobs[1].error = Some("Failed to search logs")
           /\ doc.jobs[2].error = None
           /\ doc.jobs[2].tests # <<>>
           /\ doc.summary.failedJobs = 2

\* C3: a cache file that cannot be parsed is handled like a missing one: the run
\* goes on to the job logs (or straight to the summary when no job failed) with
\* exit code 0 and nothing on stderr.
C3_CorruptCacheIsAMiss ==
    [][(pc = "loadCache" /\ cacheFile.kind = "corrupt") =>
            /\ pc' \in {"searchLogs", "writeCache"}
            /\ exitCode' = 0
            /\ stderr' = None]_vars

\* C5: the exit code is non-zero exactly when the arguments are rejected or the
\* build fetch fails, in both modes; a failed build fetch prints no document and
\* is followed by no search_logs or read_logs call; a run that ends with exit
\* code 0 has printed its document.
BuildFetchFailed ==
    \/ \E i \in DOMAIN calls : calls[i].tool = "get_build" /\ calls[i].reply \in Failure
    \/ stderr = Some("Failed to parse build response")

ArgumentsRejected ==
    stderr \in {Some("Error: invalid arguments"), Some("Error: missing required args"),
                Some("Error: missing required args for --error-for")}

C5_ExitCodeOnlyForArgsAndBuildFetch ==
    pc = "done" =>
        /\ exitCode # 0 <=> (ArgumentsRejected \/ BuildFetchFailed)
        /\ BuildFetchFailed =>
                /\ stdout = None
                /\ \A i \in DOMAIN calls : calls[i].tool = "get_build"
        /\ exitCode = 0 => stdout # None

\* C7: when the slice read for a job holds several lines matching the "N failed"
\* pattern, the record's failedLineRow is the highest of their rows and its tests
\* start after that line.
C7_LastFailedLineChosen ==
    [][(pc = "readLogs" /\ Len(jobResults') > Len(jobResults)) =>
            LET rec == jobResults'[Len(jobResults')]
                seekRow == IF The(summaryRow) - SummaryLookBack > 0
                           THEN The(summaryRow) - SummaryLookBack ELSE 0
                rows == {r \in seekRow..(Len(jobLog) - 1) :
                            isFailedSummaryText(normalizeLogLine(jobLog[r + 1]))}
            IN  (rec.failedLineRow # None /\ Cardinality(rows) >= 2) =>
                    /\ \A r \in rows : r <= The(rec.failedLineRow)
                    /\ \A k \in 1..Len(rec.testEntries) :
                            rec.testEntries[k].row > The(rec.failedLineRow)
                    /\ \A k \in 1..Len(rec.tests) :
                            ~isFailedSummaryText(rec.tests[k])]_vars

-----------------------------------------------------------------------------
(* extractErrorBlock applied to a log slice *)

MaxBlock == 3

\* raw log lines a slice is drawn from
BLines ==
    { <<"SP", "CR">>,                          \* a blank line
      <<"ESC", "SP", "ESC">>,                  \* blank once the colour is removed
      <<"SP", "TAG", "SP", "SEP", "SP", "t1">>,   \* a line holding the test name
      <<"SP", "w">>,                           \* a line of the stack trace
      <<"Retry", "SP", "HASH", "NUM">> }

BSlices == UNION {[1..n -> BLines] : n \in 0..MaxBlock}

InitBlock ==
    /\ \E slice \in BSlices, style \in RowStyles : xEntries = XEntriesOf(slice, style)
    /\ xStartRow = XStartRow
    /\ xResult = None
    /\ eMatchRow \in {Some(r) : r \in XStartRow..(XStartRow + MaxBlock + 1)}
    /\ eLog = <<>> /\ eFailedLineRow = None /\ eSearch = None /\ eSlice = None
    /\ pc = "block" /\ mode = "none" /\ cacheFile = [kind |-> "missing"]
    /\ IdleMain /\ IdleRace

ExtractErrorBlock ==
    /\ pc = "block"
    /\ xResult' = Some(extractErrorBlock(xEntries, xStartRow, The(eMatchRow), TestName))
    /\ pc' = "done"
    /\ UNCHANGED <<rVars, xEntries, xStartRow, exitCode, stdout, stderr, eVars, mode, calls,
                   cacheFile, mVars>>

NextBlock == ExtractErrorBlock

SpecBlock == InitBlock /\ [][NextBlock]_vars

\* the slice holds a line at matchRow, or a line containing the test name
StartLineLocated ==
    \/ \E i \in 1..Len(xEntries) : XRow(i) = The(eMatchRow)
    \/ \E i \in 1..Len(xEntries) :
            includes(normalizeLogLinePreserveIndent(xEntries[i].c), TestName)

\* C11: startRow and endRow are null, with no lines, only when the slice holds
\* neither a line at matchRow nor a line containing the test name; when a start
\* line is located both are set and startRow <= endRow.
C11_NullRowsOnlyWithoutStartLine ==
    (pc = "done" /\ xResult # None) =>
        LET block == The(xResult)
        IN  IF StartLineLocated
            THEN /\ block.startRow # None /\ block.endRow # None
                 /\ The(block.startRow) <= The(block.endRow)
                 /\ block.lines # <<>>
            ELSE block.startRow = None /\ block.endRow = None /\ block.lines = <<>>

-----------------------------------------------------------------------------
(* normalizeJobLabel applied to the name of a failed Playwright job *)

MaxNameWords == 2

\* the words a job name is made of after "Playwright"
NameWords ==
    {"Chromium", "firefox", "Safari", "webkit", "mobile", "iphone", "IFrame",
     "frame_with_picture", "e2e"}

LabelJobNames == UNION {[1..n -> NameWords] : n \in 0..MaxNameWords}

\* the state of main after a cache miss, the build holding one failed Playwright job
InitLabel ==
    /\ pc = "searchLogs" /\ mode = "summary"
    /\ cacheFile = [kind |-> "missing"]
    /\ exitCode = 0 /\ stdout = None /\ stderr = None
    /\ calls = callsAfterLoop(0)
    /\ buildInfo = Some("build")
    /\ \E words \in LabelJobNames :
        /\ buildJobs = <<[id |-> 1, name |-> Some(<<"Playwright">> \o words),
                          state |-> Some("failed")]>>
        /\ jobs = selectPlaywrightJobs(buildJobs)
    /\ jobIdx = 1 /\ jobLog = <<>> /\ summaryRow = None /\ jobResults = <<>>
    /\ IdleError /\ IdleExtract /\ IdleRace

NextLabel == SearchLogs \/ ReadLogs \/ WriteCache

SpecLabel == InitLabel /\ [][NextLabel]_vars

Has(jobName, word) == \E i \in 1..Len(jobName) : Lower(jobName[i]) = word

\* the base bucket of a job name by the order chromium, firefox, webkit, mobile
BucketOf(jobName) ==
    IF Has(jobName, "chromium") THEN "chromium"
    ELSE IF Has(jobName, "firefox") THEN "firefox"
    ELSE IF Has(jobName, "safari") \/ Has(jobName, "webkit") THEN "webkit"
    ELSE IF Has(jobName, "mobile") \/ Has(jobName, "iphone") THEN "mobile"
    ELSE "none"

\* C12: the label of a job record starts with the first bucket that matches the
\* job name in the order chromium, firefox, safari-or-webkit, mobile-or-iphone,
\* whatever the case of the name; a name matching none is the label unchanged.
C12_FirstBucketWins ==
    \A k \in 1..Len(jobResults) :
        LET rec == jobResults[k]
        IN  IF BucketOf(rec.jobName) = "none" THEN rec.label = rec.jobName
            ELSE rec.label[1] = BucketOf(rec.jobName)

\* a job name holding both chromium and safari, labelled chromium
C12_Witness ==
    \E k \in 1..Len(jobResults) :
        /\ Has(jobResults[k].jobName, "chromium") /\ Has(jobResults[k].jobName, "safari")
        /\ jobResults[k].label = <<"chromium">>

\* C13: the label ends with " (iframe)" exactly when a bucket matched and the
\* job name holds iframe or frame_with_picture; without a bucket the label is the
\* raw job name, with no suffix, also when the name holds iframe.
C13_IframeSuffixOnlyWithBucket ==
    \A k \in 1..Len(jobResults) :
        LET rec == jobResults[k]
            framed == Has(rec.jobName, "iframe") \/ Has(rec.jobName, "frame_with_picture")
            bucket == BucketOf(rec.jobName)
        IN  IF bucket = "none" THEN rec.label = rec.jobName
            ELSE IF framed THEN rec.label = <<bucket, " (", "iframe)">>
            ELSE rec.label = <<bucket>>

\* a job name with iframe and no bucket, whose label is the name itself
C13_Witness ==
    \E k \in 1..Len(jobResults) :
        /\ BucketOf(jobResults[k].jobName) = "none"
        /\ Has(jobResults[k].jobName, "iframe")
        /\ jobResults[k].label = jobResults[k].jobName

-----------------------------------------------------------------------------
(* the calls of a summary invocation *)

CallsOf(tool) == {i \in DOMAIN calls : calls[i].tool = tool}

LogCalls == CallsOf("search_logs") \cup CallsOf("read_logs")

\* C17: a summary invocation reads the cache file at most once, right after the
\* build fetch, and writes it at most once, as its last call.  A cache hit is
\* followed by no search_logs, read_logs or write.  Otherwise each failed
\* Playwright job gets at most one search_logs and at most one read_logs call,
\* the read after the search; when the loop has ended every failed Playwright
\* job has had its search, and the run that prints its document has written the
\* cache exactly once.
C17_CacheReadOnceWrittenOnce ==
    mode = "summary" =>
        LET reads == CallsOf("readFile")
            writes == CallsOf("writeFile")
            hit == stdout # None /\ The(stdout).kind = "summary" /\ The(stdout).cached
        IN  /\ Cardinality(reads) <= 1
            /\ \A i \in reads : i = 2 /\ calls[1].tool = "get_build"
            /\ Cardinality(writes) <= 1
            /\ \A i \in writes : i = Len(calls) /\ pc = "done"
            /\ \A i \in LogCalls \cup writes : reads # {} /\ \A r \in reads : r < i
            /\ hit => (LogCalls = {} /\ writes = {} /\ Cardinality(reads) = 1)
            /\ \A i \in LogCalls : calls[i].job \in FailedIds
            /\ \A id \in FailedIds :
                    /\ Cardinality(CallsFor("search_logs", id)) <= 1
                    /\ Cardinality(CallsFor("read_logs", id)) <= 1
                    /\ \A i \in CallsFor("read_logs", id) :
                            \E k \in CallsFor("search_logs", id) : k < i
            /\ (pc = "writeCache" \/ writes # {}) =>
                    \A id \in FailedIds : Cardinality(CallsFor("search_logs", id)) = 1
            /\ (stdout # None /\ The(stdout).kind = "summary" /\ ~The(stdout).cached) =>
                    /\ Cardinality(writes) = 1
                    /\ \A i \in writes : calls[i].reply = "ok"
                    /\ cacheFile = cacheEntry(Request, buildJobStates(jobs), buildInfo,
                                              The(stdout).summary, The(stdout).jobs)

\* an entry of an earlier build state was found and rejected; both failed jobs
\* were searched, the first search failing, and the entry was overwritten
C17_Witness ==
    /\ mode = "summary" /\ pc = "done"
    /\ stdout # None /\ The(stdout).kind = "summary" /\ ~The(stdout).cached
    /\ Cardinality(FailedIds) = 2
    /\ Len(calls) >= 2 /\ calls[2].tool = "readFile" /\ calls[2].reply = "ok"
    /\ \E i \in CallsFor("search_logs", 1) : calls[i].reply = "throw"
    /\ Cardinality(CallsOf("search_logs")) = 2
    /\ calls[Len(calls)].tool = "writeFile"

-----------------------------------------------------------------------------
\* two invocations of main for one cache key, run at the same time.  Nothing in
\* loadCache or writeCache takes a lock, and fs.writeFile is an open with
\* O_TRUNC followed by a write at offset 0: the two are separate steps, and the
\* steps of the two invocations interleave freely.

Invocations == {1, 2}

\* the build states an invocation can have fetched: the body of its cache entry
\* grows with the state
MaxState == 2

\* JSON.stringify(data, null, 2) of the entry invocation p builds in state n;
\* cachedAt makes the entries of two invocations differ
Stamp(p) == <<"t0", "t1", "t2">>[p + 1]

Serialized(p, n) == <<"{">> \o [i \in 1..n |-> Stamp(p)] \o <<"}">>

\* JSON.parse(raw): the entry, or None where it throws a SyntaxError
Parse(raw) ==
    LET n == Len(raw) - 2
    IN  IF /\ n >= 1
           /\ raw[1] = "{" /\ raw[Len(raw)] = "}"
           /\ \A i \in 2..(Len(raw) - 1) : raw[i] # "{" /\ raw[i] # "}" /\ raw[i] = raw[2]
        THEN Some([cachedAt |-> raw[2], state |-> n])
        ELSE None

\* a write of data at offset 0 over the bytes the file holds
WriteAt0(bytes, data) ==
    data \o SubSeq(bytes, Len(data) + 1, Len(bytes))

InitRace ==
    /\ disk \in {[bytes |-> b, lastWrite |-> 0] : b \in {None, Some(Serialized(0, 1))}}
    /\ runs \in [Invocations -> {[pc |-> "loadCache", state |-> n, read |-> "nothing"] :
                                    n \in 1..MaxState}]
    /\ pc = "race" /\ mode = "none" /\ cacheFile = [kind |-> "missing"]
    /\ IdleMain /\ IdleError /\ IdleExtract /\ argv = None /\ browser = <<>>
    /\ IdleExtensions

uVars == <<xVars, eVars, pc, exitCode, stdout, stderr, mode, calls, cacheFile, mVars, dVars>>

\* loadCache and the isCacheValid test of main
RaceLoad(p) ==
    /\ runs[p].pc = "loadCache"
    /\ IF disk.bytes = None
       THEN runs' = [runs EXCEPT ![p].read = "ENOENT", ![p].pc = "open"]
       ELSE LET cached == Parse(The(disk.bytes))
            IN  IF cached = None
                THEN runs' = [runs EXCEPT ![p].read = "partial", ![p].pc = "failed"]
                ELSE runs' = [runs EXCEPT ![p].read = "entry",
                                          ![p].pc = IF The(cached).state = runs[p].state
                                                    THEN "done" ELSE "open"]
    /\ UNCHANGED <<disk, argv, browser, uVars>>

\* writeCache, first half: fs.writeFile opens the file, which empties it
RaceOpen(p) ==
    /\ runs[p].pc = "open"
    /\ disk' = [disk EXCEPT !.bytes = Some(<<>>)]
    /\ runs' = [runs EXCEPT ![p].pc = "write"]
    /\ UNCHANGED <<argv, browser, uVars>>

\* writeCache, second half: fs.writeFile writes the serialized entry
RaceWrite(p) ==
    /\ runs[p].pc = "write"
    /\ disk' = [bytes |-> Some(WriteAt0(The(disk.bytes), Serialized(p, runs[p].state))),
                lastWrite |-> p]
    /\ runs' = [runs EXCEPT ![p].pc = "done"]
    /\ UNCHANGED <<argv, browser, uVars>>

NextRace ==
    \E p \in Invocations : RaceLoad(p) \/ RaceOpen(p) \/ RaceWrite(p)

SpecRace == InitRace /\ [][NextRace]_vars

\* C18: no invocation reads a partially written entry, and once both
\* invocations have ended the cache file holds the complete entry of the
\* invocation that wrote last
C18_LastWriterWins ==
    /\ \A p \in DOMAIN runs : runs[p].read # "partial"
    /\ (/\ DOMAIN runs # {}
        /\ \A p \in DOMAIN runs : runs[p].pc \in {"done", "failed"}
        /\ disk.lastWrite # 0)
       => disk.bytes = Some(Serialized(disk.lastWrite, runs[disk.lastWrite].state))

-----------------------------------------------------------------------------
\* usage errors of an invocation of main

LacksRequired(a) == ~(a.org /\ a.pipeline /\ a.build)

ErrorForWithoutJobId(a) == a.errorFor # "absent" /\ a.jobId # "given"

\* C20: an invocation that does not ask for help and lacks --org, --pipeline
\* or --build, or gives --error-for without --job-id, has ended with a non-zero
\* exit code and a message on stderr, and has issued no build fetch, no log
\* fetch and no cache access
C20_UsageErrorsFailFast ==
    (/\ argv # None
     /\ ~The(argv).help
     /\ LacksRequired(The(argv)) \/ ErrorForWithoutJobId(The(argv)))
    => (pc = "done" /\ exitCode # 0 /\ stderr # None /\ calls = <<>>)

-----------------------------------------------------------------------------
\* the failure browser command of the extension: the handler awaits
\* runFailuresWithLoader, then the selection dialog, then
\* runErrorLookupWithLoader.  Each loader starts the script with pi.exec and
\* resolves on whichever comes first, loader.onAbort or the script's end.

Stages == {"failures", "lookup"}

\* the handler step that awaits the loader of a stage
Pending(stage) == IF stage = "failures" THEN "fetching" ELSE "lookingUp"

MaxBrowserJobs == 2

\* the payloads the failures script can print: the tests of summary.failed, and
\* the failedLineRow of the jobs
FailuresPayloads ==
    {[tests |-> t, failedLineRow |-> r] :
        t \in {<<"t1">>, <<"t1", "t2">>, <<>>}, r \in {None, Some(1)}}

\* what the script process of a stage ends with: a non-zero exit code (the
\* 120 s timeout of pi.exec included), empty output, or a payload.  The
\* process is "none" before it is started, "running", and then the kind it
\* ended with.
ScriptEnds(stage) ==
    {[kind |-> "nonzero"], [kind |-> "empty"]}
    \cup {[kind |-> "payload", payload |-> p] :
            p \in IF stage = "failures" THEN FailuresPayloads ELSE {"e1", "e2"}}

\* what renderSelectionDialog resolves to for a payload
Selections(payload) ==
    {None} \cup {Some([testName |-> payload.tests[i], envEntry |-> e]) :
                    i \in 1..Len(payload.tests),
                    e \in {None} \cup {Some(j) : j \in 1..MaxBrowserJobs}}

formatErrorOutput(payload, envEntry, testName) ==
    [error |-> payload, job |-> envEntry, test |-> testName]

InitBrowser ==
    /\ browser = [at |-> "fetching",
                  script |-> [stage \in Stages |->
                                IF stage = "failures" THEN "running" ELSE "none"],
                  aborted |-> {},
                  notified |-> <<>>,
                  dialog |-> None,
                  selection |-> None,
                  editorText |-> None]
    /\ disk = None /\ runs = <<>> /\ argv = None
    /\ pc = "browser" /\ mode = "none" /\ cacheFile = [kind |-> "missing"]
    /\ IdleMain /\ IdleError /\ IdleExtract /\ IdleExtensions

bVars == <<disk, runs, argv, uVars>>

\* loader.onAbort = () => done(null): the loader resolves to null, loaderError
\* is null, and the handler notifies.  pi.exec was given no signal and nothing
\* else reaches the script process.
Abort(stage) ==
    /\ browser.at = Pending(stage)
    /\ browser' = [browser EXCEPT !.aborted = @ \cup {stage},
                                  !.notified = Append(@, "Cancelled."),
                                  !.at = "returned"]
    /\ UNCHANGED bVars

\* the script process of a stage ends.  While the loader is open the .then or
\* .catch of the loader resolves it and the handler goes on; after
\* loader.onAbort the second done and the assignment to loaderError reach nobody.
ScriptEnd(stage) ==
    /\ browser.script[stage] = "running"
    /\ \E reply \in ScriptEnds(stage) :
        LET exited == [browser EXCEPT !.script[stage] = reply.kind]
        IN  IF browser.at # Pending(stage)
            THEN browser' = exited
            ELSE IF reply.kind # "payload"
            THEN browser' = [exited EXCEPT
                    !.notified = Append(@,
                        IF stage = "failures" THEN "Failed to fetch failures"
                        ELSE "Failed to fetch error details"),
                    !.at = "returned"]
            ELSE IF stage = "failures"
            THEN browser' = [exited EXCEPT !.dialog = Some(reply.payload), !.at = "selecting"]
            ELSE browser' = [exited EXCEPT
                    !.editorText = Some(formatErrorOutput(reply.payload,
                                            The(The(browser.selection).envEntry),
                                            The(browser.selection).testName)),
                    !.at = "returned"]
    /\ UNCHANGED bVars

\* renderSelectionDialog resolves, and the handler starts the error lookup
Select ==
    /\ browser.at = "selecting"
    /\ \E selection \in Selections(The(browser.dialog)) :
        IF selection = None
        THEN browser' = [browser EXCEPT !.at = "returned"]
        ELSE IF The(selection).envEntry = None
        THEN browser' = [browser EXCEPT
                !.notified = Append(@, "No environment selected for this test."),
                !.at = "returned"]
        ELSE browser' = [browser EXCEPT !.selection = selection,
                                        !.script["lookup"] = "running",
                                        !.at = "lookingUp"]
    /\ UNCHANGED bVars

NextBrowser ==
    \/ \E stage \in Stages : Abort(stage) \/ ScriptEnd(stage)
    \/ Select

SpecBrowser == InitBrowser /\ [][NextBrowser]_vars

\* C19: once the user has aborted the loader of a stage, the script process of
\* that stage is no longer running, the command has ended and its last
\* notification is 'Cancelled.'; an aborted failures fetch has put nothing in
\* the selection dialog and an aborted lookup nothing in the editor
C19_AbortTerminatesScript ==
    \A stage \in Stages :
        (browser # <<>> /\ stage \in browser.aborted) =>
            /\ browser.script[stage] # "running"
            /\ browser.at = "returned"
            /\ browser.notified[Len(browser.notified)] = "Cancelled."
            /\ stage = "failures" => browser.dialog = None
            /\ stage = "lookup" => browser.editorText = None

-----------------------------------------------------------------------------
\* the job records of a summary invocation

IsJobLevelError(record) ==
    /\ record.error # None
    /\ record.failedLine = None /\ record.failedLineRow = None
    /\ record.tests = <<>> /\ record.testEntries = <<>>

IsSuccessfulExtraction(record) ==
    record.error = None /\ record.failedLineRow # None

\* C21: every job record is either a job-level error (error set, failedLine and
\* failedLineRow null, tests and testEntries empty) or a successful extraction
\* (error null, failedLineRow set)
C21_RecordIsErrorOrExtraction ==
    \A i \in DOMAIN jobResults :
        IsJobLevelError(jobResults[i]) \/ IsSuccessfulExtraction(jobResults[i])

-----------------------------------------------------------------------------
\* normalizeLogLine applied to a line, character by character

MaxLineChars == 6

LineChars == {"x1b", "[", "0", "m", "SP"}

RECURSIVE CharLines(_)
CharLines(n) ==
    IF n = 0 THEN {<<>>}
    ELSE LET shorter == CharLines(n - 1)
         IN  shorter \cup {Append(l, c) : l \in {x \in shorter : Len(x) = n - 1}, c \in LineChars}

InitNormalize ==
    /\ xEntries \in CharLines(MaxLineChars)
    /\ xStartRow = 0
    /\ xResult = None
    /\ pc = "normalize" /\ mode = "none" /\ cacheFile = [kind |-> "missing"]
    /\ IdleMain /\ IdleError /\ IdleRace

\* text = normalizeLogLine(entry.c)
NormalizeLogLine ==
    /\ pc = "normalize"
    /\ xResult' = Some(normalizeLogLine(xEntries))
    /\ pc' = "done"
    /\ UNCHANGED <<rVars, xEntries, xStartRow, exitCode, stdout, stderr, eVars, mode, calls,
                   cacheFile, mVars>>

NextNormalize == NormalizeLogLine

SpecNormalize == InitNormalize /\ [][NextNormalize]_vars

\* C22: the scan-variant normalisation is idempotent: applied to its own output
\* it returns that output unchanged
C22_NormalizeIdempotent ==
    xResult # None => normalizeLogLine(The(xResult)) = The(xResult)

-----------------------------------------------------------------------------
\* the cronjob extension.  runtimeJobsById is a Map: the jobs are visited in
\* insertion order, which is their index here.  Time is left out: which jobs
\* have come due at a tick, and how many times, is any choice.

MaxCronJobs == 2

MaxPendingRuns == 2

CronIds == 1..MaxCronJobs

InitCron ==
    /\ cron = [jobs |-> [j \in CronIds |-> [enabled |-> TRUE, pendingRuns |-> 0]],
               isAgentBusy |-> FALSE,
               agent |-> "idle",
               lastRun |-> None,
               sinceAgentEnd |-> 0]
    /\ fanout = <<>> /\ tracker = <<>> /\ guard = <<>>
    /\ disk = None /\ runs = <<>> /\ argv = None /\ browser = <<>>
    /\ pc = "cron" /\ mode = "none" /\ cacheFile = [kind |-> "missing"]
    /\ IdleMain /\ IdleError /\ IdleExtract

xcVars == <<disk, runs, argv, browser, fanout, tracker, guard,
            xVars, eVars, pc, exitCode, stdout, stderr, mode, calls, cacheFile, mVars>>

\* dispatchOnePendingRun without the proactive isAgentBusy = true
dispatchLeavingIdle(c, j, throws) ==
    IF c.jobs[j].pendingRuns <= 0 \/ throws THEN c
    ELSE [c EXCEPT !.jobs[j].pendingRuns = @ - 1,
                   !.agent = IF @ = "idle" THEN "queued" ELSE @,
                   !.lastRun = Some(j),
                   !.sinceAgentEnd = @ + 1]

\* dispatchOnePendingRun(runtimeJob, source); throws: pi.sendUserMessage threw
dispatchOnePendingRun(c, j, throws) ==
    IF c.jobs[j].pendingRuns <= 0 THEN c
    ELSE IF throws
    THEN [c EXCEPT !.isAgentBusy = FALSE]
    ELSE [c EXCEPT !.jobs[j].pendingRuns = @ - 1,
                   !.isAgentBusy = TRUE,
                   !.agent = IF @ = "idle" THEN "queued" ELSE @,
                   !.lastRun = Some(j),
                   !.sinceAgentEnd = @ + 1]

\* the first loop of tick: due[j] runs have come due for job j
collectDue(c, due) ==
    [c EXCEPT !.jobs = [j \in CronIds |->
                            IF c.jobs[j].enabled
                            THEN [c.jobs[j] EXCEPT !.pendingRuns = @ + due[j]]
                            ELSE c.jobs[j]]]

\* the second loop of tick: the first enabled job with a pending run, then break
firstPending(c) ==
    LET waiting == {j \in CronIds : c.jobs[j].enabled /\ c.jobs[j].pendingRuns > 0}
    IN  IF waiting = {} THEN None ELSE Some(CHOOSE j \in waiting : \A k \in waiting : j <= k)

TickWith(due, throws) ==
    LET collected == collectDue(cron, due)
    IN  /\ \A j \in CronIds : cron.jobs[j].pendingRuns + due[j] <= MaxPendingRuns
        /\ cron' = IF collected.isAgentBusy \/ firstPending(collected) = None
                   THEN collected
                   ELSE dispatchOnePendingRun(collected, The(firstPending(collected)), throws)
        /\ UNCHANGED xcVars

tick == \E due \in [CronIds -> 0..MaxPendingRuns], throws \in BOOLEAN : TickWith(due, throws)

\* a tick that sends a prompt
TickDispatching ==
    /\ \E due \in [CronIds -> 0..MaxPendingRuns] : TickWith(due, FALSE)
    /\ cron'.sinceAgentEnd # cron.sinceAgentEnd

\* /cron run <job>
CronRun(j) ==
    /\ cron.jobs[j].pendingRuns < MaxPendingRuns
    /\ LET queued == [cron EXCEPT !.jobs[j].pendingRuns = @ + 1]
       IN  \E throws \in BOOLEAN :
            cron' = IF queued.isAgentBusy THEN queued
                    ELSE dispatchOnePendingRun(queued, j, throws)
    /\ UNCHANGED xcVars

\* /cron pause <job>
CronPause(j) ==
    /\ cron.jobs[j].enabled
    /\ cron' = [cron EXCEPT !.jobs[j] = [enabled |-> FALSE, pendingRuns |-> 0]]
    /\ UNCHANGED xcVars

\* /cron resume <job>
CronResume(j) ==
    /\ ~cron.jobs[j].enabled
    /\ cron' = [cron EXCEPT !.jobs[j].enabled = TRUE]
    /\ UNCHANGED xcVars

\* the user sends a prompt of their own to the idle agent
UserPrompt ==
    /\ cron.agent = "idle"
    /\ cron' = [cron EXCEPT !.agent = "queued"]
    /\ UNCHANGED xcVars

\* pi.on("agent_start")
AgentStart ==
    /\ cron.agent = "queued"
    /\ cron' = [cron EXCEPT !.agent = "running", !.isAgentBusy = TRUE]
    /\ UNCHANGED xcVars

\* pi.on("agent_end")
AgentEnd ==
    /\ cron.agent = "running"
    /\ cron' = [cron EXCEPT !.agent = "idle", !.isAgentBusy = FALSE,
                            !.lastRun = None, !.sinceAgentEnd = 0]
    /\ UNCHANGED xcVars

NextCron ==
    \/ tick
    \/ \E j \in CronIds : CronRun(j) \/ CronPause(j) \/ CronResume(j)
    \/ UserPrompt
    \/ AgentStart
    \/ AgentEnd

SpecCron == InitCron /\ [][NextCron]_vars

\* timer ticks keep firing, every agent run starts and ends, and a prompt that
\* can be sent again and again is sent
SpecCronLive ==
    /\ SpecCron
    /\ WF_vars(tick) /\ WF_vars(AgentStart) /\ WF_vars(AgentEnd)
    /\ SF_vars(TickDispatching)

\* C30: a step sends a cron prompt only from a state where isAgentBusy is false
\* and no prompt has been sent since the last agent_end, and it sends one
\* prompt; whatever comes due while the agent is busy only grows pendingRuns
C30_OneDispatchPerAgentRun ==
    [][/\ cron'.sinceAgentEnd > cron.sinceAgentEnd =>
            /\ ~cron.isAgentBusy
            /\ cron.sinceAgentEnd = 0 /\ cron'.sinceAgentEnd = 1
            /\ cron'.isAgentBusy
       /\ (cron.isAgentBusy /\ cron'.agent = cron.agent) =>
            /\ cron'.lastRun = cron.lastRun
            /\ \A j \in CronIds :
                    cron.jobs[j].enabled = cron'.jobs[j].enabled =>
                        cron'.jobs[j].pendingRuns >= cron.jobs[j].pendingRuns]_vars

\* the agent is running the prompt of job 1 and both jobs have runs queued
\* that came due in the meantime
C30_Witness ==
    /\ cron.agent = "running" /\ cron.isAgentBusy
    /\ cron.lastRun = Some(1) /\ cron.sinceAgentEnd = 1
    /\ \A j \in CronIds : cron.jobs[j].enabled /\ cron.jobs[j].pendingRuns > 0

\* C23: a run queued for an enabled job is eventually sent to the agent, unless
\* the job is paused first
C23_QueuedRunEventuallyDispatched ==
    \A j \in CronIds :
        (cron.jobs[j].enabled /\ cron.jobs[j].pendingRuns > 0)
            ~> (cron.lastRun = Some(j) \/ ~cron.jobs[j].enabled)

-----------------------------------------------------------------------------
\* design_research_fanout: execute builds the tasks and awaits
\* runWithConcurrency, whose workers share one cursor.  A worker runs without
\* interruption from one await to the next: taking an index, spawning the
\* subprocess and storing a result are never interleaved with another worker.

MaxTasks == 5

\* params.maxAgents ?? config.researchMaxAgents, as the caller gave it
MaxAgentsGiven == 6

MathMin(a, b) == IF a <= b THEN a ELSE b
MathMax(a, b) == IF a >= b THEN a ELSE b

\* the clamps of execute forgotten: only runWithConcurrency bounds the workers
concurrencyUnclamped(maxAgents, count) == MathMax(1, MathMin(maxAgents, count))

\* Math.max(1, Math.min(4, Math.floor(maxAgents))) in execute, then
\* Math.max(1, Math.min(concurrency, items.length)) in runWithConcurrency
concurrencyOf(maxAgents, count) ==
    MathMax(1, MathMin(MathMax(1, MathMin(4, maxAgents)), count))

\* a worker takes the index at the cursor: it returns past the last item, and
\* spawns the subprocess of the item otherwise
takeNext(f, w) ==
    IF f.cursor > f.count
    THEN [f EXCEPT !.cursor = @ + 1, !.workers[w] = [at |-> "returned", index |-> 0]]
    ELSE [f EXCEPT !.cursor = @ + 1,
                   !.workers[w] = [at |-> "awaiting", index |-> f.cursor],
                   !.spawned[f.cursor] = @ + 1]

RECURSIVE startWorkers(_, _)
startWorkers(f, w) ==
    IF w > Len(f.workers) THEN f ELSE startWorkers(takeNext(f, w), w + 1)

InitFanout ==
    /\ \E count \in 1..MaxTasks, maxAgents \in 0..MaxAgentsGiven :
        fanout = [at |-> "called", count |-> count, maxAgents |-> maxAgents,
                  cursor |-> 1, workers |-> <<>>,
                  spawned |-> [i \in 1..count |-> 0],
                  results |-> [i \in 1..count |-> None],
                  returned |-> None]
    /\ cron = <<>> /\ tracker = <<>> /\ guard = <<>>
    /\ disk = None /\ runs = <<>> /\ argv = None /\ browser = <<>>
    /\ pc = "fanout" /\ mode = "none" /\ cacheFile = [kind |-> "missing"]
    /\ IdleMain /\ IdleError /\ IdleExtract

xfVars == <<disk, runs, argv, browser, cron, tracker, guard,
            xVars, eVars, pc, exitCode, stdout, stderr, mode, calls, cacheFile, mVars>>

\* execute up to its await: every worker runs to its first await
Execute ==
    /\ fanout.at = "called"
    /\ LET concurrency == concurrencyOf(fanout.maxAgents, fanout.count)
           created == [fanout EXCEPT !.workers = [w \in 1..concurrency |->
                                                    [at |-> "created", index |-> 0]]]
       IN  fanout' = [startWorkers(created, 1) EXCEPT !.at = "awaiting"]
    /\ UNCHANGED xfVars

\* the subprocess of a worker closes: runResearchTask settles with done or
\* error, the worker stores the result and takes the next index
Settle(w) ==
    /\ fanout.at = "awaiting"
    /\ w \in DOMAIN fanout.workers
    /\ fanout.workers[w].at = "awaiting"
    /\ \E status \in {"done", "error"} :
        LET index == fanout.workers[w].index
            stored == [fanout EXCEPT !.results[index] = Some([id |-> index, status |-> status])]
        IN  fanout' = takeNext(stored, w)
    /\ UNCHANGED xfVars

\* Promise.all(workers) resolves and execute returns the results
Return ==
    /\ fanout.at = "awaiting"
    /\ \A w \in DOMAIN fanout.workers : fanout.workers[w].at = "returned"
    /\ fanout' = [fanout EXCEPT !.at = "returned", !.returned = Some(fanout.results)]
    /\ UNCHANGED xfVars

NextFanout ==
    \/ Execute
    \/ \E w \in 1..MaxTasks : Settle(w)
    \/ Return

SpecFanout == InitFanout /\ [][NextFanout]_vars

Running(f) == {w \in DOMAIN f.workers : f.workers[w].at = "awaiting"}

\* C24: at most maxAgents subprocesses, clamped to 1..4 and to the number of
\* tasks, run at the same time; no task is spawned twice; a stored result is
\* that of the task at its index; and the tool has returned only with every
\* task spawned once and settled as done or error
C24_BoundedFanout ==
    /\ Cardinality(Running(fanout)) <= 4
    /\ Cardinality(Running(fanout)) <= fanout.count
    /\ Cardinality(Running(fanout)) <= MathMax(1, fanout.maxAgents)
    /\ \A i \in 1..fanout.count :
        /\ fanout.spawned[i] <= 1
        /\ fanout.results[i] # None => The(fanout.results[i]).id = i
    /\ fanout.at = "returned" =>
        /\ Running(fanout) = {}
        /\ \A i \in 1..fanout.count :
            /\ fanout.spawned[i] = 1
            /\ The(fanout.returned)[i] # None
            /\ The(The(fanout.returned)[i]).id = i
            /\ The(The(fanout.returned)[i]).status \in {"done", "error"}

\* five tasks under maxAgents 6: four subprocesses are running, the first task
\* taken by a freed worker has not settled while a later one has
C24_Witness ==
    /\ fanout.count = 5 /\ fanout.maxAgents = 6
    /\ Cardinality(Running(fanout)) = 4
    /\ fanout.results[1] = None
    /\ fanout.results[2] # None /\ The(fanout.results[2]).status = "error"
    /\ fanout.spawned[5] = 1

\* ---------------------------------------------------------------------------
\* start-design-plan: the design-plan tracker (core/state.ts, second version,
\* and tools/design-plan-tracker.ts).  Timestamps and task owners are left
\* out: no decision of the tracker reads them.

\* DEFAULT_PHASES
PhaseIds == <<"phase-1", "phase-2", "phase-3", "phase-4", "phase-5">>

PhaseStatuses == {"pending", "in_progress", "completed", "blocked"}

TaskStatuses == {"pending", "in_progress", "completed", "blocked", "failed"}

\* String.prototype.trim on the strings the tool is called with
trimString(s) ==
    CASE s = " note " -> "note"
      [] s = " docs/plan.md " -> "docs/plan.md"
      [] s = " " -> ""
      [] OTHER -> s

\* findIndex, 1-based; 0 when no phase has the id
findPhaseIndex(phases, phaseId) ==
    IF \E i \in 1..Len(phases) : phases[i].id = phaseId
    THEN CHOOSE i \in 1..Len(phases) :
            /\ phases[i].id = phaseId
            /\ \A k \in 1..(i - 1) : phases[k].id # phaseId
    ELSE 0

\* findIndex, 1-based; 0 when no task has the id
findTaskIndex(tasks, taskId) ==
    IF \E i \in 1..Len(tasks) : tasks[i].id = taskId
    THEN CHOOSE i \in 1..Len(tasks) :
            /\ tasks[i].id = taskId
            /\ \A k \in 1..(i - 1) : tasks[k].id # taskId
    ELSE 0

buildInitialPhases ==
    [i \in 1..Len(PhaseIds) |-> [id |-> PhaseIds[i], status |-> "pending", notes |-> <<>>]]

normalizePhaseStatus(status) ==
    IF status \in PhaseStatuses THEN status ELSE "pending"

normalizeTaskStatus(status) ==
    IF status \in TaskStatuses THEN status ELSE "pending"

RECURSIVE normalizeStringList(_)
normalizeStringList(items) ==
    IF items = <<>> THEN <<>>
    ELSE LET item == trimString(Head(items))
         IN  IF item = "" THEN normalizeStringList(Tail(items))
             ELSE <<item>> \o normalizeStringList(Tail(items))

\* new Map(tasks by id).get(id): the last task with the id, None when absent
taskMapGet(tasks, id) ==
    IF \E i \in 1..Len(tasks) : tasks[i].id = id
    THEN Some(tasks[CHOOSE i \in 1..Len(tasks) :
                        /\ tasks[i].id = id
                        /\ \A k \in (i + 1)..Len(tasks) : tasks[k].id # id])
    ELSE None

RECURSIVE unresolvedFrom(_, _)
unresolvedFrom(blockedBy, tasks) ==
    IF blockedBy = <<>> THEN <<>>
    ELSE LET dependency == taskMapGet(tasks, Head(blockedBy))
             rest == unresolvedFrom(Tail(blockedBy), tasks)
         IN  IF dependency = None \/ The(dependency).status # "completed"
             THEN <<Head(blockedBy)>> \o rest
             ELSE rest

unresolvedDependencies(task, tasks) == unresolvedFrom(task.blockedBy, tasks)

\* the block state of one task against the map of all tasks
syncedTask(task, tasks) ==
    IF task.status \in {"completed", "failed"} THEN task
    ELSE IF unresolvedDependencies(task, tasks) # <<>>
         THEN IF task.status = "blocked" THEN task
              ELSE [task EXCEPT !.status = "blocked"]
         ELSE IF task.status = "blocked"
              THEN [task EXCEPT !.status = "pending"]
              ELSE task

\* a sync that leaves every task as it is
syncTaskBlockStateSkipped(tasks) == tasks

syncTaskBlockState(tasks) ==
    [i \in 1..Len(tasks) |-> syncedTask(tasks[i], tasks)]

RECURSIVE keptTasks(_, _)
\* normalizeTasks, first loop: tasks without an id, a known phase or a title are dropped
keptTasks(rawTasks, phaseIds) ==
    IF rawTasks = <<>> THEN <<>>
    ELSE LET candidate == Head(rawTasks)
             id == trimString(candidate.id)
             phaseId == trimString(candidate.phaseId)
             title == trimString(candidate.title)
             rest == keptTasks(Tail(rawTasks), phaseIds)
         IN  IF id = "" \/ phaseId \notin phaseIds \/ title = "" THEN rest
             ELSE <<[id |-> id, phaseId |-> phaseId, title |-> title,
                     blockedBy |-> normalizeStringList(candidate.blockedBy),
                     status |-> normalizeTaskStatus(candidate.status),
                     notes |-> normalizeStringList(candidate.notes)]>> \o rest

RECURSIVE uniqueByIdFrom(_, _)
\* Array.from(uniqueById.values()): first position of each id, last task with it
uniqueByIdFrom(tasks, i) ==
    IF i > Len(tasks) THEN <<>>
    ELSE IF \E k \in 1..(i - 1) : tasks[k].id = tasks[i].id
         THEN uniqueByIdFrom(tasks, i + 1)
         ELSE <<The(taskMapGet(tasks, tasks[i].id))>> \o uniqueByIdFrom(tasks, i + 1)

normalizeTasks(state, phaseIds) ==
    LET rawTasks == IF "tasks" \in DOMAIN state THEN state.tasks ELSE <<>>
    IN  syncTaskBlockState(uniqueByIdFrom(keptTasks(rawTasks, phaseIds), 1))

\* phaseLookup.get(id): the last phase with the id, None when absent
phaseLookupGet(phases, id) ==
    IF \E i \in 1..Len(phases) : phases[i].id = id
    THEN Some(phases[CHOOSE i \in 1..Len(phases) :
                        /\ phases[i].id = id
                        /\ \A k \in (i + 1)..Len(phases) : phases[k].id # id])
    ELSE None

normalizeStateTopic(topic) ==
    IF trimString(topic) # "" THEN trimString(topic) ELSE "Design plan"

normalizeTrackerState(state) ==
    LET phases == [i \in 1..Len(PhaseIds) |->
                     LET existing == phaseLookupGet(state.phases, PhaseIds[i])
                     IN  IF existing = None
                         THEN [id |-> PhaseIds[i], status |-> "pending", notes |-> <<>>]
                         ELSE [id |-> PhaseIds[i],
                               status |-> normalizePhaseStatus(The(existing).status),
                               notes |-> normalizeStringList(The(existing).notes)]]
        designPath == IF state.designPath # None /\ trimString(The(state.designPath)) # ""
                      THEN Some(trimString(The(state.designPath)))
                      ELSE None
    IN  [version |-> 2,
         topic |-> normalizeStateTopic(state.topic),
         designPath |-> designPath,
         phases |-> phases,
         tasks |-> normalizeTasks(state, {PhaseIds[i] : i \in 1..Len(PhaseIds)})]

createInitialTrackerState(topic) ==
    IF trimString(topic) = "" THEN [ok |-> FALSE, error |-> <<"Topic is required">>]
    ELSE [ok |-> TRUE,
          state |-> [version |-> 2, topic |-> trimString(topic), designPath |-> None,
                     phases |-> buildInitialPhases, tasks |-> <<>>]]

\* a transition check that lets every status through
validatePhaseTransitionAny(state, phaseIndex, status) ==
    [ok |-> TRUE]

validatePhaseTransition(state, phaseIndex, status) ==
    IF phaseIndex \notin 1..Len(state.phases)
    THEN [ok |-> FALSE, error |-> <<"Unknown phase">>]
    ELSE IF /\ status \in {"completed", "in_progress"}
            /\ \E index \in 1..(phaseIndex - 1) : state.phases[index].status # "completed"
         THEN [ok |-> FALSE,
               error |-> <<IF status = "completed" THEN "Cannot complete" ELSE "Cannot start",
                           state.phases[phaseIndex].id, "before",
                           state.phases[CHOOSE index \in 1..(phaseIndex - 1) :
                               /\ state.phases[index].status # "completed"
                               /\ \A k \in 1..(index - 1) :
                                      state.phases[k].status = "completed"].id,
                           "is completed">>]
         ELSE [ok |-> TRUE]

\* a status change that leaves every other phase as it is
setPhaseStatusAlone(state, phaseId, status) ==
    LET phaseIndex == findPhaseIndex(state.phases, phaseId)
    IN  IF phaseIndex = 0 THEN [ok |-> FALSE, error |-> <<"Unknown phase id:", phaseId>>]
        ELSE IF ~validatePhaseTransition(state, phaseIndex, status).ok
        THEN [ok |-> FALSE, error |-> validatePhaseTransition(state, phaseIndex, status).error]
        ELSE [ok |-> TRUE, state |-> [state EXCEPT !.phases[phaseIndex].status = status]]

setPhaseStatus(state, phaseId, status) ==
    LET phaseIndex == findPhaseIndex(state.phases, phaseId)
        transition == validatePhaseTransition(state, phaseIndex, status)
    IN  IF phaseIndex = 0 THEN [ok |-> FALSE, error |-> <<"Unknown phase id:", phaseId>>]
        ELSE IF ~transition.ok THEN [ok |-> FALSE, error |-> transition.error]
        ELSE [ok |-> TRUE,
              state |-> [state EXCEPT !.phases =
                  [index \in 1..Len(state.phases) |->
                      IF index # phaseIndex
                      THEN IF status = "in_progress" /\ state.phases[index].status = "in_progress"
                           THEN [state.phases[index] EXCEPT !.status = "pending"]
                           ELSE state.phases[index]
                      ELSE [state.phases[index] EXCEPT !.status = status]]]]

noteOf(note) == trimString(note)

appendPhaseNote(state, phaseId, note) ==
    LET phaseIndex == findPhaseIndex(state.phases, phaseId)
    IN  IF phaseIndex = 0 THEN [ok |-> FALSE, error |-> <<"Unknown phase id:", phaseId>>]
        ELSE IF noteOf(note) = "" THEN [ok |-> FALSE, error |-> <<"Note must not be empty">>]
        ELSE [ok |-> TRUE,
              state |-> [state EXCEPT !.phases[phaseIndex].notes = Append(@, noteOf(note))]]

setDesignPath(state, designPath) ==
    IF trimString(designPath) = ""
    THEN [ok |-> FALSE, error |-> <<"designPath must not be empty">>]
    ELSE [ok |-> TRUE, state |-> [state EXCEPT !.designPath = Some(trimString(designPath))]]

\* ids task-1, task-2, ...
TaskIds == <<"task-1", "task-2", "task-3", "task-4", "task-5", "task-6", "task-7", "task-8">>

\* the number of an id of the form task-<digits>, 0 for any other id
taskNumber(id) ==
    IF \E n \in 1..Len(TaskIds) : TaskIds[n] = id
    THEN CHOOSE n \in 1..Len(TaskIds) : TaskIds[n] = id
    ELSE 0

RECURSIVE maxTaskIndex(_)
maxTaskIndex(tasks) ==
    IF tasks = <<>> THEN 0
    ELSE MathMax(taskNumber(Head(tasks).id), maxTaskIndex(Tail(tasks)))

nextTaskId(state) == TaskIds[maxTaskIndex(state.tasks) + 1]

\* taskId is None when the call gives none
addTask(state, phaseId, title, blockedByGiven, taskId) ==
    LET requestedId == IF taskId = None THEN "" ELSE trimString(The(taskId))
        id == IF requestedId # "" THEN requestedId ELSE nextTaskId(state)
        blockedBy == normalizeStringList(blockedByGiven)
        missing == SelectSeq(blockedBy, LAMBDA dependency :
                                 findTaskIndex(state.tasks, dependency) = 0)
        newTask == [id |-> id, phaseId |-> phaseId, title |-> trimString(title),
                    blockedBy |-> blockedBy, status |-> "pending", notes |-> <<>>]
    IN  IF findPhaseIndex(state.phases, phaseId) = 0
        THEN [ok |-> FALSE, error |-> <<"Unknown phase id:", phaseId>>]
        ELSE IF trimString(title) = ""
        THEN [ok |-> FALSE, error |-> <<"Task title must not be empty">>]
        ELSE IF findTaskIndex(state.tasks, id) > 0
        THEN [ok |-> FALSE, error |-> <<"Task id already exists:", id>>]
        ELSE IF missing # <<>>
        THEN [ok |-> FALSE, error |-> <<"Blocked dependency not found:", Head(missing)>>]
        ELSE [ok |-> TRUE,
              state |-> [state EXCEPT !.tasks = syncTaskBlockState(Append(@, newTask))]]

setTaskStatus(state, taskId, status) ==
    LET taskIndex == findTaskIndex(state.tasks, taskId)
        unresolved == unresolvedDependencies(state.tasks[taskIndex], state.tasks)
    IN  IF taskIndex = 0 THEN [ok |-> FALSE, error |-> <<"Unknown task id:", taskId>>]
        ELSE IF status \in {"in_progress", "completed"} /\ unresolved # <<>>
        THEN [ok |-> FALSE, error |-> <<"Task", taskId, "is blocked by:">> \o unresolved]
        ELSE [ok |-> TRUE,
              state |-> [state EXCEPT !.tasks =
                  syncTaskBlockState([@ EXCEPT ![taskIndex].status = status])]]

appendTaskNote(state, taskId, note) ==
    LET taskIndex == findTaskIndex(state.tasks, taskId)
    IN  IF taskIndex = 0 THEN [ok |-> FALSE, error |-> <<"Unknown task id:", taskId>>]
        ELSE IF trimString(note) = ""
        THEN [ok |-> FALSE, error |-> <<"Task note must not be empty">>]
        ELSE [ok |-> TRUE,
              state |-> [state EXCEPT !.tasks[taskIndex].notes = Append(@, trimString(note))]]

\* design-plan-tracker.ts: a tracker entry's data; state is None for null
persistState(entries, state) ==
    Append(entries, [hasState |-> TRUE, state |-> state])

asTrackerState(value) ==
    IF value.version \notin {1, 2} \/ "phases" \notin DOMAIN value THEN None ELSE Some(value)

\* a rebuild in which a null entry leaves the tracker found so far
latestAfterKeepingOnNull(latest, entry) ==
    IF ~entry.hasState THEN latest
    ELSE IF entry.state = None THEN latest
    ELSE IF asTrackerState(The(entry.state)) = None THEN latest
    ELSE Some(normalizeTrackerState(The(entry.state)))

\* one round of the loop over the branch's tracker entries
latestAfter(latest, entry) ==
    IF ~entry.hasState THEN latest
    ELSE IF entry.state = None THEN None
    ELSE IF asTrackerState(The(entry.state)) = None THEN latest
    ELSE Some(normalizeTrackerState(The(entry.state)))

RECURSIVE reconstructFrom(_, _)
reconstructFrom(entries, latest) ==
    IF entries = <<>> THEN latest
    ELSE reconstructFrom(Tail(entries), latestAfter(latest, Head(entries)))

reconstructTrackerState(entries) == reconstructFrom(entries, None)

requireState(state) ==
    IF state = None
    THEN [ok |-> FALSE, error |-> <<"Tracker is not initialized. Call action=create first.">>]
    ELSE [ok |-> TRUE, state |-> The(state)]

\* The extension's tracker: state is the in-memory `state` of
\* startDesignPlanExtension, entries the tracker entries of the session
\* branch, reply the tool's last result.
xgVars == <<disk, runs, argv, browser, cron, fanout,
            xVars, eVars, pc, exitCode, stdout, stderr, mode, calls, cacheFile, mVars>>

xtVars == <<guard, xgVars>>

\* reconstructGuardrailMode: the last guardrail entry with a known mode
RECURSIVE reconstructGuardrailModeFrom(_, _)
reconstructGuardrailModeFrom(entries, found) ==
    IF entries = <<>> THEN found
    ELSE reconstructGuardrailModeFrom(Tail(entries),
             IF Head(entries) \in {"strict", "relaxed"} THEN Head(entries) ELSE found)

\* DEFAULT_GUARDRAIL_MODE when no entry has one
reconstructGuardrailMode(entries) == reconstructGuardrailModeFrom(entries, "strict")

\* limit caps the tracker entries of the session
InitTrackerWith(priors, limit) ==
    /\ \E prior \in priors :
        tracker = [at |-> "loading", state |-> None, entries |-> prior, reply |-> None,
                   limit |-> limit]
    /\ cron = <<>> /\ fanout = <<>> /\ guard = <<>>
    /\ disk = None /\ runs = <<>> /\ argv = None /\ browser = <<>>
    /\ pc = "tracker" /\ mode = "none" /\ cacheFile = [kind |-> "missing"]
    /\ IdleMain /\ IdleError /\ IdleExtract

\* session_start, session_switch, session_tree
onSessionEvent ==
    /\ tracker' = [tracker EXCEPT !.at = "ready",
                                  !.state = reconstructTrackerState(tracker.entries)]
    /\ guard' = IF guard = <<>> THEN guard
                ELSE [guard EXCEPT !.mode = reconstructGuardrailMode(guard.entries)]
    /\ UNCHANGED xgVars

\* an error result that persists the tracker once more
RefusedAfterPersisting(text) ==
    /\ tracker' = [tracker EXCEPT !.entries = persistState(@, tracker.state),
                                  !.reply = Some([isError |-> TRUE, text |-> text])]
    /\ UNCHANGED xtVars

\* the tool's error result: nothing is set, nothing is persisted
Refused(text) ==
    /\ tracker' = [tracker EXCEPT !.reply = Some([isError |-> TRUE, text |-> text])]
    /\ UNCHANGED xtVars

\* binding.setState, persistState and the tool's result
Updated(state, text) ==
    /\ tracker' = [tracker EXCEPT !.state = state,
                                  !.entries = persistState(@, state),
                                  !.reply = Some([isError |-> FALSE, text |-> text])]
    /\ UNCHANGED xtVars

Create(topic, force) ==
    /\ tracker.at = "ready" /\ Len(tracker.entries) < tracker.limit
    /\ IF tracker.state # None /\ ~force
       THEN Refused(<<"Tracker already exists. Use force=true to recreate.">>)
       ELSE LET created == createInitialTrackerState(
                               IF trimString(topic) # "" THEN trimString(topic)
                               ELSE "Design plan")
            IN  IF ~created.ok THEN Refused(created.error)
                ELSE Updated(Some(created.state),
                             <<"Tracker created for topic:", created.state.topic>>)

SetStatus(phaseId, status) ==
    /\ tracker.at = "ready" /\ Len(tracker.entries) < tracker.limit
    /\ LET required == requireState(tracker.state)
       IN  IF ~required.ok THEN Refused(required.error)
           ELSE IF trimString(phaseId) = "" THEN Refused(<<"phaseId and status are required">>)
           ELSE LET updated == setPhaseStatus(required.state, trimString(phaseId), status)
                IN  IF ~updated.ok THEN Refused(updated.error)
                    ELSE Updated(Some(updated.state),
                                 <<"Updated", trimString(phaseId), "to", status>>)

\* phase ids and topics the tool is called with
PhaseIdsGiven == {"phase-1", "phase-2", "phase-9"}

TopicsGiven == {"", "billing"}

\* tool calls that persist, per session
MaxPhaseCalls == 5

InitPhases == InitTrackerWith({<<>>}, MaxPhaseCalls)

NextPhases ==
    \/ onSessionEvent
    \/ \E force \in BOOLEAN : Create("billing", force)
    \/ \E phaseId \in PhaseIdsGiven, status \in PhaseStatuses : SetStatus(phaseId, status)

SpecPhases == InitPhases /\ [][NextPhases]_vars

\* C27: in every tracker reached from create by set_status calls, a phase
\* that is in_progress or completed has every earlier phase completed.
C27_StartedPhaseFollowsCompleted ==
    tracker # <<>> /\ tracker.state # None =>
        LET phases == The(tracker.state).phases
        IN  \A i \in 1..Len(phases) :
                phases[i].status \in {"in_progress", "completed"} =>
                    \A k \in 1..(i - 1) : phases[k].status = "completed"

AddTask(phaseId, title, blockedBy, taskId) ==
    /\ tracker.at = "ready" /\ Len(tracker.entries) < tracker.limit
    /\ LET required == requireState(tracker.state)
       IN  IF ~required.ok THEN Refused(required.error)
           ELSE IF trimString(phaseId) = "" \/ trimString(title) = ""
           THEN Refused(<<"phaseId and title are required for add_task">>)
           ELSE LET updated == addTask(required.state, trimString(phaseId), trimString(title),
                                       blockedBy, taskId)
                IN  IF ~updated.ok THEN Refused(updated.error)
                    ELSE Updated(Some(updated.state),
                                 <<"Added task in", trimString(phaseId), trimString(title)>>)

SetTaskStatus(taskId, status) ==
    /\ tracker.at = "ready" /\ Len(tracker.entries) < tracker.limit
    /\ LET required == requireState(tracker.state)
       IN  IF ~required.ok THEN Refused(required.error)
           ELSE IF trimString(taskId) = "" THEN Refused(<<"taskId and taskStatus are required">>)
           ELSE LET updated == setTaskStatus(required.state, trimString(taskId), status)
                IN  IF ~updated.ok THEN Refused(updated.error)
                    ELSE Updated(Some(updated.state),
                                 <<"Updated task", trimString(taskId), "to", status>>)

\* what add_task and set_task_status are called with
TaskPhaseIdsGiven == {"phase-1", "phase-9"}

TitlesGiven == {"survey", " "}

BlockedByGiven == {<<>>, <<"task-1">>, <<"task-1", "task-2">>, <<"task-9">>}

NewTaskIdsGiven == {None, Some("task-1")}

TaskIdsGiven == {"task-1", "task-2", "task-3", "task-9"}

\* tool calls that persist, per session
MaxTaskCalls == 5

InitTasks == InitTrackerWith({<<>>}, MaxTaskCalls)

NextTasks ==
    \/ onSessionEvent
    \/ \E topic \in TopicsGiven, force \in BOOLEAN : Create(topic, force)
    \/ \E phaseId \in TaskPhaseIdsGiven, title \in TitlesGiven,
          blockedBy \in BlockedByGiven, taskId \in NewTaskIdsGiven :
          AddTask(phaseId, title, blockedBy, taskId)
    \/ \E taskId \in TaskIdsGiven, status \in TaskStatuses : SetTaskStatus(taskId, status)

SpecTasks == InitTasks /\ [][NextTasks]_vars

\* the tool's last result says that a task call went through
TaskCallSucceeded(t) ==
    /\ t.state # None /\ t.reply # None /\ ~The(t.reply).isError
    /\ Head(The(t.reply).text) \in {"Added task in", "Updated task"}

\* C25: after every successful add_task or set_task_status, each task that
\* is neither completed nor failed is blocked exactly when one of its
\* dependencies is missing or not completed, and a task that was blocked and
\* has no unresolved dependency left is pending.
C25_BlockedIffUnresolved ==
    [][TaskCallSucceeded(tracker') =>
        LET tasks == The(tracker'.state).tasks
        IN  \A i \in 1..Len(tasks) :
              /\ tasks[i].status \notin {"completed", "failed"} =>
                    (tasks[i].status = "blocked" <=>
                        \E d \in 1..Len(tasks[i].blockedBy) :
                            \/ findTaskIndex(tasks, tasks[i].blockedBy[d]) = 0
                            \/ tasks[findTaskIndex(tasks, tasks[i].blockedBy[d])].status
                                   # "completed")
              /\ (/\ tracker.state # None
                  /\ i <= Len(The(tracker.state).tasks)
                  /\ The(tracker.state).tasks[i].status = "blocked"
                  /\ \A d \in 1..Len(tasks[i].blockedBy) :
                        /\ findTaskIndex(tasks, tasks[i].blockedBy[d]) > 0
                        /\ tasks[findTaskIndex(tasks, tasks[i].blockedBy[d])].status
                               = "completed")
                    => tasks[i].status = "pending"]_vars

\* task-2 was blocked by task-1 and is pending once task-1 is completed
C25_Witness ==
    /\ tracker # <<>> /\ TaskCallSucceeded(tracker)
    /\ The(tracker.reply).text = <<"Updated task", "task-1", "to", "completed">>
    /\ Len(The(tracker.state).tasks) >= 2
    /\ The(tracker.state).tasks[1].status = "completed"
    /\ The(tracker.state).tasks[2].blockedBy = <<"task-1">>
    /\ The(tracker.state).tasks[2].status = "pending"

\* C26: after a successful set_task_status(taskId, status) the task has the
\* status the call asked for, the one the reply 'Updated task <id> to
\* <status>' names.
C26_TaskHasRequestedStatus ==
    (tracker # <<>> /\ TaskCallSucceeded(tracker)
        /\ Head(The(tracker.reply).text) = "Updated task") =>
        LET text == The(tracker.reply).text
            tasks == The(tracker.state).tasks
        IN  tasks[findTaskIndex(tasks, text[2])].status = text[4]

AppendNote(phaseId, note) ==
    /\ tracker.at = "ready" /\ Len(tracker.entries) < tracker.limit
    /\ LET required == requireState(tracker.state)
       IN  IF ~required.ok THEN Refused(required.error)
           ELSE IF trimString(phaseId) = "" THEN Refused(<<"phaseId is required">>)
           ELSE LET updated == appendPhaseNote(required.state, trimString(phaseId), note)
                IN  IF ~updated.ok THEN Refused(updated.error)
                    ELSE Updated(Some(updated.state),
                                 <<"Appended note to", trimString(phaseId)>>)

SetDesignPath(designPath) ==
    /\ tracker.at = "ready" /\ Len(tracker.entries) < tracker.limit
    /\ LET required == requireState(tracker.state)
       IN  IF ~required.ok THEN Refused(required.error)
           ELSE LET updated == setDesignPath(required.state, designPath)
                IN  IF ~updated.ok THEN Refused(updated.error)
                    ELSE Updated(Some(updated.state),
                                 <<"Set design path:", The(updated.state.designPath)>>)

AppendTaskNote(taskId, note) ==
    /\ tracker.at = "ready" /\ Len(tracker.entries) < tracker.limit
    /\ LET required == requireState(tracker.state)
       IN  IF ~required.ok THEN Refused(required.error)
           ELSE IF trimString(taskId) = "" THEN Refused(<<"taskId is required">>)
           ELSE LET updated == appendTaskNote(required.state, trimString(taskId), note)
                IN  IF ~updated.ok THEN Refused(updated.error)
                    ELSE Updated(Some(updated.state),
                                 <<"Appended note to task", trimString(taskId)>>)

Reset ==
    /\ tracker.at = "ready" /\ Len(tracker.entries) < tracker.limit
    /\ Updated(None, <<"Tracker reset">>)

\* the /start-design-plan command; replace is the answer to the confirm dialog
StartDesignPlan(topic, replace) ==
    /\ tracker.at = "ready" /\ Len(tracker.entries) < tracker.limit
    /\ LET created == createInitialTrackerState(trimString(topic))
       IN  IF trimString(topic) = "" \/ (tracker.state # None /\ ~replace) \/ ~created.ok
           THEN UNCHANGED tracker
           ELSE tracker' = [tracker EXCEPT !.state = Some(created.state),
                                           !.entries = persistState(@, Some(created.state))]
    /\ UNCHANGED xtVars

\* a tracker entry whose data has no state
EntryWithoutState == [hasState |-> FALSE, state |-> None]

\* a tracker as this extension persists it: phase-1 under way, one task
PersistedState ==
    [version |-> 2, topic |-> "billing", designPath |-> None,
     phases |-> [buildInitialPhases EXCEPT ![1].status = "in_progress"],
     tasks |-> <<[id |-> "task-1", phaseId |-> "phase-1", title |-> "survey",
                  blockedBy |-> <<>>, status |-> "pending", notes |-> <<>>]>>]

\* a version-1 tracker: no tasks, not every phase, values not yet normalized
LegacyState ==
    [version |-> 1, topic |-> " ", designPath |-> Some(" docs/plan.md "),
     phases |-> <<[id |-> "phase-2", status |-> "done", notes |-> <<" note ", " ">>]>>]

\* a version-2 tracker edited by hand: a task without title, an id twice,
\* block states that do not follow the dependencies
EditedState ==
    [version |-> 2, topic |-> "billing", designPath |-> Some(" "),
     phases |-> buildInitialPhases,
     tasks |-> <<[id |-> "task-1", phaseId |-> "phase-1", title |-> "survey",
                  blockedBy |-> <<>>, status |-> "blocked", notes |-> <<>>],
                 [id |-> "task-2", phaseId |-> "phase-1", title |-> "survey",
                  blockedBy |-> <<"task-1">>, status |-> "in_progress", notes |-> <<>>],
                 [id |-> "task-3", phaseId |-> "phase-1", title |-> " ",
                  blockedBy |-> <<>>, status |-> "pending", notes |-> <<>>],
                 [id |-> "task-1", phaseId |-> "phase-1", title |-> "survey",
                  blockedBy |-> <<>>, status |-> "completed", notes |-> <<>>]>>]

\* what the session branch holds when the extension is loaded
PriorSessions ==
    {<<>>,
     persistState(<<>>, Some(PersistedState)),
     Append(persistState(<<>>, Some(PersistedState)), EntryWithoutState),
     persistState(persistState(<<>>, Some(PersistedState)), Some([version |-> 3])),
     persistState(persistState(<<>>, Some(PersistedState)), None),
     persistState(<<>>, Some(LegacyState)),
     persistState(<<>>, Some(EditedState))}

\* what the tool and the command are called with in a resumed session
SessionPhaseIdsGiven == {"phase-1"}

SessionStatusesGiven == {"in_progress", "completed"}

NotesGiven == {" note ", " "}

DesignPathsGiven == {" docs/plan.md ", " "}

SessionBlockedByGiven == {<<>>, <<"task-1">>}

SessionTaskIdsGiven == {"task-1", "task-2"}

SessionTaskStatusesGiven == {"completed", "blocked"}

\* tracker entries on the branch
MaxSessionEntries == 4

InitSession == InitTrackerWith(PriorSessions, MaxSessionEntries)

NextSession ==
    \/ onSessionEvent
    \/ \E topic \in TopicsGiven, force \in BOOLEAN : Create(topic, force)
    \/ \E topic \in TopicsGiven, replace \in BOOLEAN : StartDesignPlan(topic, replace)
    \/ \E phaseId \in SessionPhaseIdsGiven, status \in SessionStatusesGiven :
          SetStatus(phaseId, status)
    \/ \E phaseId \in SessionPhaseIdsGiven, note \in NotesGiven : AppendNote(phaseId, note)
    \/ \E designPath \in DesignPathsGiven : SetDesignPath(designPath)
    \/ \E phaseId \in SessionPhaseIdsGiven, blockedBy \in SessionBlockedByGiven :
          AddTask(phaseId, "survey", blockedBy, None)
    \/ \E taskId \in SessionTaskIdsGiven, status \in SessionTaskStatusesGiven :
          SetTaskStatus(taskId, status)
    \/ \E taskId \in SessionTaskIdsGiven, note \in NotesGiven : AppendTaskNote(taskId, note)
    \/ Reset

SpecSession == InitSession /\ [][NextSession]_vars

\* C28: once the session is loaded, after any tracker mutations, rebuilding
\* the tracker from the session's entries gives the tracker held in memory:
\* the last persisted entry wins, a reset entry clears, entries without a
\* state or with an unknown version are skipped.
C28_RebuildEqualsMemory ==
    (tracker # <<>> /\ tracker.at = "ready") =>
        reconstructTrackerState(tracker.entries) = tracker.state

\* a note appended after a resume over an entry without state
C28_Witness ==
    /\ tracker # <<>> /\ tracker.at = "ready" /\ tracker.state # None
    /\ \E i \in 1..Len(tracker.entries) : ~tracker.entries[i].hasState
    /\ tracker.reply = Some([isError |-> FALSE, text |-> <<"Appended note to", "phase-1">>])
    /\ The(tracker.state).phases[1].notes = <<"note">>

\* ---------------------------------------------------------------------------
\* start-design-plan: the strict guardrail on turn_end (index.ts,
\* core/guardrails).  An assistant text is a sequence of lines, a line a
\* sequence of words; <<>> is a blank line.

isWorkflowComplete(state) ==
    /\ state # None
    /\ Len(The(state).phases) # 0
    /\ \A i \in 1..Len(The(state).phases) : The(state).phases[i].status = "completed"

RECURSIVE dropLeadingBlank(_)
dropLeadingBlank(lines) ==
    IF lines # <<>> /\ Head(lines) = <<>> THEN dropLeadingBlank(Tail(lines)) ELSE lines

RECURSIVE dropTrailingBlank(_)
dropTrailingBlank(lines) ==
    IF lines # <<>> /\ lines[Len(lines)] = <<>>
    THEN dropTrailingBlank(SubSeq(lines, 1, Len(lines) - 1))
    ELSE lines

\* the message's one text part, trimmed
extractAssistantText(message) ==
    IF message.role # "assistant" THEN <<>>
    ELSE dropTrailingBlank(dropLeadingBlank(message.text))

\* line.trim().replace(/^[\-*]\s+/, "")
normalizeLine(line) ==
    IF Len(line) >= 2 /\ Head(line) \in {"-", "*"} THEN Tail(line) ELSE line

hasDiscreteChoicePrompt(text) ==
    LET lines == SelectSeq(text, LAMBDA line : line # <<>>)
        numberedOptions == Cardinality({i \in 1..Len(lines) :
                               Len(lines[i]) >= 2 /\ Head(lines[i]) \in {"1.", "2."}})
        bulletOptions == Cardinality({i \in 1..Len(lines) :
                               Len(lines[i]) >= 2 /\ Head(lines[i]) \in {"-", "*"}})
        hasChoiceHeading == \E i \in 1..Len(lines) : Head(lines[i]) = "Options:"
        hasDecisionLanguage == \E i \in 1..Len(lines) : \E k \in 1..Len(lines[i]) :
                                   lines[i][k] \in {"Which", "?"}
    IN  /\ lines # <<>>
        /\ hasDecisionLanguage
        /\ \/ numberedOptions >= 2
           \/ hasChoiceHeading /\ numberedOptions + bulletOptions >= 2

\* /\/clear|implementation\s+plan|start-implementation-plan|\/copy|copy\s+this\s+command/i
\* on one word: "docs/copy/plan.md" holds "/copy"
forbiddenWord(word) == word \in {"/clear", "docs/copy/plan.md"}

validateCompletionResponse(text, state) ==
    LET nonEmptyLines == SelectSeq([i \in 1..Len(text) |-> normalizeLine(text[i])],
                                   LAMBDA line : line # <<>>)
    IN  IF state.designPath = None THEN [ok |-> FALSE, reason |-> "design path is not set"]
        ELSE IF \E i \in 1..Len(text) : \E k \in 1..Len(text[i]) : forbiddenWord(text[i][k])
        THEN [ok |-> FALSE,
              reason |-> "completion message includes forbidden handoff/copy guidance"]
        ELSE IF Len(nonEmptyLines) # 2
        THEN [ok |-> FALSE,
              reason |-> "completion message must contain exactly two non-empty lines"]
        ELSE IF nonEmptyLines[1] \notin {<<"Design planning is complete.">>,
                                         <<"design planning is complete">>}
        THEN [ok |-> FALSE, reason |-> "first line must state completion"]
        ELSE IF nonEmptyLines[2] \notin {<<"Design path:", The(state.designPath)>>,
                                         <<"Design path:", "BACKTICK", The(state.designPath), "BACKTICK">>}
        THEN [ok |-> FALSE, reason |-> "second line must report exact design path"]
        ELSE [ok |-> TRUE]

\* the two lines the completion correction asks for
requestedLines(designPath) ==
    <<<<"Design planning is complete.">>,
      <<"Design path:", IF designPath = None THEN "(unknown)" ELSE The(designPath)>>>>

\* the follow-up message of the turn_end handler, None when it sends none
followUpOf(message, hasUI, usedAskUserQuestion) ==
    LET assistantText == extractAssistantText(message)
    IN  IF guard.mode # "strict" \/ tracker.state = None \/ message.role # "assistant"
           \/ assistantText = <<>>
        THEN None
        ELSE IF ~isWorkflowComplete(tracker.state)
        THEN IF ~hasUI \/ ~hasDiscreteChoicePrompt(assistantText) \/ usedAskUserQuestion
             THEN None
             ELSE Some(<<<<"Guardrail correction: you presented discrete options without ask_user_question.">>>>)
        ELSE IF validateCompletionResponse(assistantText, The(tracker.state)).ok THEN None
        ELSE Some(<<<<"Guardrail correction: rewrite the completion response now.">>>>
                  \o requestedLines(The(tracker.state).designPath))

\* turn_end; turn keeps what the handler saw and what it sent
TurnEnd(message, hasUI, usedAskUserQuestion) ==
    /\ tracker.at = "ready"
    /\ guard' = [guard EXCEPT !.turn = Some(
                    [text |-> message.text, role |-> message.role,
                     strict |-> guard.mode = "strict",
                     complete |-> isWorkflowComplete(tracker.state),
                     designPath |-> IF tracker.state = None THEN None
                                    ELSE The(tracker.state).designPath,
                     followUp |-> followUpOf(message, hasUI, usedAskUserQuestion)])]
    /\ UNCHANGED <<tracker, xgVars>>

\* /design-plan-guardrails strict|relaxed
GuardrailsCommand(action) ==
    /\ tracker.at = "ready"
    /\ Len(guard.entries) < guard.limit
    /\ guard' = [guard EXCEPT !.mode = action, !.entries = Append(@, action)]
    /\ UNCHANGED <<tracker, xgVars>>

\* design paths the tracker is given
GuardPathsGiven == {"docs/plan.md", "docs/copy/plan.md"}

\* assistant messages at the end of a turn
MessagesGiven ==
    {[role |-> "assistant", text |-> requestedLines(designPath)] :
        designPath \in {None} \cup {Some(p) : p \in GuardPathsGiven}}
    \cup {[role |-> "assistant",
           text |-> <<<<"-", "design planning is complete">>, <<>>,
                      <<"Design path:", "BACKTICK", "docs/plan.md", "BACKTICK">>>>],
          [role |-> "assistant",
           text |-> requestedLines(Some("docs/plan.md")) \o <<<<"Next:", "/clear">>>>],
          [role |-> "assistant",
           text |-> requestedLines(Some("docs/plan.md")) \o <<<<"Thanks">>>>],
          [role |-> "assistant",
           text |-> <<<<"Which", "store", "?">>, <<"1.", "sqlite">>, <<"2.", "postgres">>>>],
          [role |-> "assistant", text |-> <<<<>>>>],
          [role |-> "user", text |-> <<<<"Thanks">>>>]}

\* tracker entries and guardrail entries on the branch
MaxGuardCalls == 3

MaxModeEntries == 2

\* a tracker as this extension persists it: the first four phases completed
NearlyCompleteState ==
    [version |-> 2, topic |-> "billing", designPath |-> None,
     phases |-> [i \in 1..Len(PhaseIds) |->
                    [id |-> PhaseIds[i],
                     status |-> IF i < Len(PhaseIds) THEN "completed" ELSE "in_progress",
                     notes |-> <<>>]],
     tasks |-> <<>>]

InitGuard ==
    /\ tracker = [at |-> "loading", state |-> None,
                  entries |-> persistState(<<>>, Some(NearlyCompleteState)),
                  reply |-> None, limit |-> MaxGuardCalls]
    /\ \E prior \in {<<>>, <<"relaxed">>} :
        guard = [mode |-> "strict", entries |-> prior, turn |-> None,
                 limit |-> MaxModeEntries]
    /\ cron = <<>> /\ fanout = <<>>
    /\ disk = None /\ runs = <<>> /\ argv = None /\ browser = <<>>
    /\ pc = "guard" /\ mode = "none" /\ cacheFile = [kind |-> "missing"]
    /\ IdleMain /\ IdleError /\ IdleExtract

NextGuard ==
    \/ onSessionEvent
    \/ SetStatus("phase-5", "completed")
    \/ \E designPath \in GuardPathsGiven : SetDesignPath(designPath)
    \/ \E action \in {"strict", "relaxed"} : GuardrailsCommand(action)
    \/ \E message \in MessagesGiven, hasUI \in BOOLEAN, usedAskUserQuestion \in BOOLEAN :
          TurnEnd(message, hasUI, usedAskUserQuestion)

SpecGuard == InitGuard /\ [][NextGuard]_vars

\* C29: in strict mode with all five phases completed, an assistant reply
\* that is exactly the two lines the correction asks for ('Design planning
\* is complete.' and 'Design path: <design path>') gets no follow-up
\* correction, so the reply that follows a correction ends the loop.
C29_RequestedReplyAccepted ==
    (guard # <<>> /\ guard.turn # None) =>
        LET turn == The(guard.turn)
        IN  (/\ turn.strict /\ turn.complete /\ turn.role = "assistant"
             /\ turn.text = requestedLines(turn.designPath))
                => turn.followUp = None

\* C31: set_status to in_progress or completed on a known phase is refused
\* with 'Cannot start/complete ... before ... is completed' exactly when an
\* earlier phase is not completed, and then changes nothing; every other
\* set_status on a known phase goes through and the phase has the status.
C31_TransitionRejectedIffEarlierOpen ==
    [][\A phaseId \in PhaseIdsGiven, status \in PhaseStatuses :
        (/\ tracker.state # None
         /\ findPhaseIndex(The(tracker.state).phases, phaseId) > 0
         /\ SetStatus(phaseId, status)) =>
            LET phases == The(tracker.state).phases
                phaseIndex == findPhaseIndex(phases, phaseId)
                earlierOpen == \E k \in 1..(phaseIndex - 1) : phases[k].status # "completed"
                reply == The(tracker'.reply)
            IN  IF status \in {"in_progress", "completed"} /\ earlierOpen
                THEN /\ reply.isError
                     /\ Head(reply.text) = (IF status = "completed" THEN "Cannot complete"
                                            ELSE "Cannot start")
                     /\ reply.text[2] = phaseId
                     /\ tracker'.state = tracker.state
                ELSE /\ ~reply.isError
                     /\ The(tracker'.state).phases[phaseIndex].status = status]_vars

\* phase-1 is in progress and a set_status on phase-2 was refused for it
C31_Witness ==
    /\ tracker # <<>> /\ tracker.state # None /\ tracker.reply # None
    /\ The(tracker.reply).isError
    /\ The(tracker.reply).text = <<"Cannot start", "phase-2", "before", "phase-1", "is completed">>
    /\ The(tracker.state).phases[1].status = "in_progress"

\* C37: in every tracker reached from create by set_status calls at most
\* one phase is in_progress.
C37_OnePhaseInProgress ==
    (tracker # <<>> /\ tracker.state # None) =>
        Cardinality({i \in 1..Len(The(tracker.state).phases) :
                        The(tracker.state).phases[i].status = "in_progress"}) <= 1

\* phase-1 was started again while phase-2 was in progress: phase-2 is pending
C37_Witness ==
    /\ tracker # <<>> /\ tracker.state # None /\ Len(tracker.entries) >= 2
    /\ tracker.reply = Some([isError |-> FALSE,
                             text |-> <<"Updated", "phase-1", "to", "in_progress">>])
    /\ The(tracker.entries[Len(tracker.entries) - 1].state).phases[2].status = "in_progress"
    /\ The(tracker.state).phases[1].status = "in_progress"
    /\ The(tracker.state).phases[2].status = "pending"

\* what the tool is called with when calls are to fail as well as succeed
RefusalPhaseIdsGiven == {"phase-1", "phase-2", "phase-9"}

RefusalStatusesGiven == {"in_progress", "pending"}

RefusalBlockedByGiven == {<<>>, <<"task-1">>, <<"task-9">>}

RefusalTaskIdsGiven == {"task-1", "task-2", "task-9"}

RefusalTaskStatusesGiven == {"in_progress", "completed"}

\* tracker entries on the branch
MaxRefusalEntries == 4

InitRefusals == InitTrackerWith({persistState(<<>>, Some(PersistedState))}, MaxRefusalEntries)

NextRefusals ==
    \/ onSessionEvent
    \/ \E force \in BOOLEAN : Create("billing", force)
    \/ \E phaseId \in RefusalPhaseIdsGiven, status \in RefusalStatusesGiven :
          SetStatus(phaseId, status)
    \/ \E phaseId \in RefusalPhaseIdsGiven, note \in NotesGiven : AppendNote(phaseId, note)
    \/ \E designPath \in DesignPathsGiven : SetDesignPath(designPath)
    \/ \E phaseId \in TaskPhaseIdsGiven, title \in TitlesGiven,
          blockedBy \in RefusalBlockedByGiven, taskId \in NewTaskIdsGiven :
          AddTask(phaseId, title, blockedBy, taskId)
    \/ \E taskId \in RefusalTaskIdsGiven, status \in RefusalTaskStatusesGiven :
          SetTaskStatus(taskId, status)
    \/ \E taskId \in RefusalTaskIdsGiven, note \in NotesGiven : AppendTaskNote(taskId, note)
    \/ Reset

SpecRefusals == InitRefusals /\ [][NextRefusals]_vars

\* C38: a design_plan_tracker call that returns an error leaves the
\* tracker in memory as it was and appends no session entry.
C38_ErrorChangesNothing ==
    [][(tracker'.reply # None /\ The(tracker'.reply).isError) =>
          (tracker'.state = tracker.state /\ tracker'.entries = tracker.entries)]_vars

\* an add_task with a taken id was refused after an earlier call went through
C38_Witness ==
    /\ tracker # <<>> /\ tracker.state # None /\ Len(tracker.entries) >= 2
    /\ tracker.reply = Some([isError |-> TRUE,
                             text |-> <<"Task id already exists:", "task-1">>])


-----------------------------------------------------------------------------
(* Cron Jobs on a Clock *)
\* Time is counted in half minutes, so that a tick can fall in the middle of
\* a minute; a schedule occurrence is the start of a matching minute.

EveryMinute == "* * * * *"
EveryOneMinute == "*/1 * * * *"
EveryOtherMinute == "*/2 * * * *"
NeverMatching == "0 0 30 2 *"
SchedulesGiven == {EveryMinute, EveryOneMinute, EveryOtherMinute, NeverMatching}

\* the minutes searched for the next occurrence (a year of minutes in the
\* source), longer here than the longest gap of a schedule that ever matches
MAX_NEXT_RUN_SEARCH_MINUTES == 3

\* parseCronExpression: the schedules the parser accepts
parseCronExpression(schedule) ==
    IF schedule \in SchedulesGiven THEN [success |-> TRUE, value |-> schedule]
    ELSE [success |-> FALSE, error |-> "invalid schedule"]

\* cronMatches, on the minute the candidate date lies in
cronMatches(parsed, minute) ==
    CASE parsed \in {EveryMinute, EveryOneMinute} -> TRUE
      [] parsed = EveryOtherMinute -> minute % 2 = 0
      [] OTHER -> FALSE

RECURSIVE nextRunFrom(_, _, _)
nextRunFrom(parsed, candidate, index) ==
    IF index >= MAX_NEXT_RUN_SEARCH_MINUTES THEN None
    ELSE IF cronMatches(parsed, candidate) THEN Some(candidate * 2)
    ELSE nextRunFrom(parsed, candidate + 1, index + 1)

\* nextRunAfter: the start of the first matching minute after the minute of afterMs
nextRunAfter(parsed, afterMs) == nextRunFrom(parsed, (afterMs \div 2) + 1, 0)

RECURSIVE collectFrom(_, _, _, _)
collectFrom(parsed, cursor, nowMs, dueRuns) ==
    IF cursor = None \/ The(cursor) > nowMs
        THEN [dueRuns |-> dueRuns, nextRunAtMs |-> cursor]
        ELSE collectFrom(parsed, nextRunAfter(parsed, The(cursor)), nowMs, dueRuns + 1)

\* one due run however many occurrences were missed
collectOneDueRun(parsed, nextRunAtMs, nowMs) ==
    IF nextRunAtMs = None \/ The(nextRunAtMs) > nowMs
        THEN [dueRuns |-> 0, nextRunAtMs |-> nextRunAtMs]
        ELSE [dueRuns |-> 1, nextRunAtMs |-> nextRunAfter(parsed, nowMs)]

\* collectDueRuns
collectDueRuns(parsed, nextRunAtMs, nowMs) == collectFrom(parsed, nextRunAtMs, nowMs, 0)

\* the name as written
nameAsGiven(name) == name

\* normalizeName: name.trim().toLowerCase()
normalizeName(name) ==
    CASE name = "Nightly" -> "nightly"
      [] name = " nightly " -> "nightly"
      [] name = "Weekly" -> "weekly"
      [] OTHER -> name

\* validateCronJob: the name of a persisted job, trimmed
persistedName(name) ==
    IF name = None THEN None
    ELSE IF The(name) = " nightly " THEN Some("nightly") ELSE name

\* the CronJob part of a runtime job
cronJobOf(runtimeJob) ==
    [id |-> runtimeJob.id, name |-> runtimeJob.name, schedule |-> runtimeJob.schedule,
     enabled |-> runtimeJob.enabled, lastRunAtIso |-> runtimeJob.lastRunAtIso]

\* buildRuntimeJob
buildRuntimeJob(job, nowMs) ==
    LET parsed == parseCronExpression(job.schedule) IN
    IF ~parsed.success THEN [success |-> FALSE, error |-> parsed.error]
    ELSE [success |-> TRUE,
          value |-> [id |-> job.id, name |-> job.name, schedule |-> job.schedule,
                     enabled |-> job.enabled, lastRunAtIso |-> job.lastRunAtIso,
                     nextRunAtMs |-> nextRunAfter(parsed.value, nowMs),
                     pendingRuns |-> 0]]

RECURSIVE jobsOf(_)
jobsOf(runtimeJobs) ==
    IF runtimeJobs = <<>> THEN <<>>
    ELSE <<cronJobOf(Head(runtimeJobs))>> \o jobsOf(Tail(runtimeJobs))

\* saveState: the jobs of the runtime map, in its order
saveState(c) == [c EXCEPT !.file = [loads |-> TRUE, jobs |-> jobsOf(c.jobs)]]

\* Map.get / Map.set by job id: the position of the id, 0 when absent
RECURSIVE indexOfId(_, _, _)
indexOfId(runtimeJobs, id, at) ==
    IF at > Len(runtimeJobs) THEN 0
    ELSE IF runtimeJobs[at].id = id THEN at
    ELSE indexOfId(runtimeJobs, id, at + 1)

mapSet(runtimeJobs, runtimeJob) ==
    LET at == indexOfId(runtimeJobs, runtimeJob.id, 1) IN
    IF at = 0 THEN Append(runtimeJobs, runtimeJob)
    ELSE [runtimeJobs EXCEPT ![at] = runtimeJob]

RECURSIVE loadFrom(_, _, _, _)
loadFrom(fileJobs, nowMs, nextMap, seenNames) ==
    IF fileJobs = <<>> THEN nextMap
    ELSE
        LET job == [Head(fileJobs) EXCEPT !.name = persistedName(@)]
            runtime == buildRuntimeJob(job, nowMs)
        IN IF ~runtime.success THEN loadFrom(Tail(fileJobs), nowMs, nextMap, seenNames)
           ELSE IF job.name # None /\ normalizeName(The(job.name)) \in seenNames
               THEN loadFrom(Tail(fileJobs), nowMs, nextMap, seenNames)
           ELSE loadFrom(Tail(fileJobs), nowMs, mapSet(nextMap, runtime.value),
                         IF job.name = None THEN seenNames
                         ELSE seenNames \cup {normalizeName(The(job.name))})

\* loadJobsIntoMemory: a file that does not load leaves the map as it is
loadJobsIntoMemory(c) ==
    IF ~c.file.loads THEN c
    ELSE [c EXCEPT !.jobs = loadFrom(c.file.jobs, c.now, <<>>, {})]

\* hasJobName
hasJobName(c, name) ==
    \E at \in 1..Len(c.jobs) :
        /\ c.jobs[at].name # None
        /\ normalizeName(The(c.jobs[at].name)) = normalizeName(name)

\* upsertJob
upsertJob(c, job) ==
    IF /\ job.name # None
       /\ \E at \in 1..Len(c.jobs) :
            /\ c.jobs[at].id # job.id
            /\ c.jobs[at].name # None
            /\ normalizeName(The(c.jobs[at].name)) = normalizeName(The(job.name))
    THEN [success |-> FALSE, error |-> <<"job name already exists:", The(job.name)>>, c |-> c]
    ELSE LET runtime == buildRuntimeJob(job, c.now) IN
         IF ~runtime.success THEN [success |-> FALSE, error |-> <<runtime.error>>, c |-> c]
         ELSE [success |-> TRUE,
               c |-> saveState([c EXCEPT !.jobs = mapSet(c.jobs, runtime.value)])]

\* getJobByIdentifier: the position of the job, by id first, then by name
getJobByIdentifier(c, identifier) ==
    LET byId == indexOfId(c.jobs, identifier, 1)
        byName == {at \in 1..Len(c.jobs) :
                     /\ c.jobs[at].name # None
                     /\ normalizeName(The(c.jobs[at].name)) = normalizeName(identifier)}
    IN IF byId # 0 THEN [success |-> TRUE, value |-> byId]
       ELSE IF Cardinality(byName) = 1
           THEN [success |-> TRUE, value |-> CHOOSE at \in byName : TRUE]
       ELSE IF Cardinality(byName) > 1
           THEN [success |-> FALSE, error |-> <<"ambiguous job name", identifier>>]
       ELSE [success |-> FALSE, error |-> <<"job not found:", identifier>>]

\* triggerJob after pi.sendUserMessage returned
triggerJob(c, at) ==
    saveState([c EXCEPT !.sent = Some(c.jobs[at].id),
                        !.jobs[at].lastRunAtIso = Some(c.now)])

\* the catch of a dispatch that leaves the run taken and the agent marked busy
catchWithoutRollback(c, at) ==
    [c EXCEPT !.reply = Some(<<"failed to run cron job", c.jobs[at].id>>)]

\* dispatchOnePendingRun: the catch block
catchFailedRun(c, at) ==
    [c EXCEPT !.isAgentBusy = FALSE, !.jobs[at].pendingRuns = @ + 1,
              !.reply = Some(<<"failed to run cron job", c.jobs[at].id>>)]

\* dispatchOnePendingRun; throws: pi.sendUserMessage throws
dispatchRun(c, at, throws) ==
    IF c.jobs[at].pendingRuns <= 0 THEN c
    ELSE LET taken == [c EXCEPT !.jobs[at].pendingRuns = @ - 1, !.isAgentBusy = TRUE]
         IN IF throws THEN catchFailedRun(taken, at) ELSE triggerJob(taken, at)

\* the first loop of tick without the test of enabled
queueDueRunsOfAny(runtimeJob, nowMs) ==
    LET due == collectDueRuns(runtimeJob.schedule, runtimeJob.nextRunAtMs, nowMs) IN
    IF due.dueRuns <= 0 THEN runtimeJob
    ELSE [runtimeJob EXCEPT !.nextRunAtMs = due.nextRunAtMs,
                            !.pendingRuns = @ + due.dueRuns]

\* tick, first loop, for one job
queueDueRuns(runtimeJob, nowMs) ==
    IF ~runtimeJob.enabled THEN runtimeJob
    ELSE LET due == collectDueRuns(runtimeJob.schedule, runtimeJob.nextRunAtMs, nowMs) IN
         IF due.dueRuns <= 0 THEN runtimeJob
         ELSE [runtimeJob EXCEPT !.nextRunAtMs = due.nextRunAtMs,
                                 !.pendingRuns = @ + due.dueRuns]

\* tick, second loop: the first enabled job with a queued run, 0 when none
firstQueued(runtimeJobs) ==
    LET queued == {at \in 1..Len(runtimeJobs) :
                     runtimeJobs[at].enabled /\ runtimeJobs[at].pendingRuns > 0}
    IN IF queued = {} THEN 0 ELSE CHOOSE at \in queued : \A other \in queued : at <= other

\* tick
tickAt(c, throws) ==
    LET queued == [c EXCEPT !.jobs = [at \in 1..Len(c.jobs) |-> queueDueRuns(c.jobs[at], c.now)]]
        first == firstQueued(queued.jobs)
    IN IF queued.isAgentBusy \/ first = 0 THEN queued
       ELSE dispatchRun(queued, first, throws)

\* /cron resume that leaves the next run where it was
resumeKeepingNextRun(c, at) ==
    saveState([c EXCEPT !.jobs[at].enabled = TRUE])

\* /cron pause on a resolved job
pauseJob(c, at) ==
    saveState([c EXCEPT !.jobs[at].enabled = FALSE, !.jobs[at].pendingRuns = 0])

\* /cron resume on a resolved job
resumeJob(c, at) ==
    saveState([c EXCEPT !.jobs[at].enabled = TRUE,
                        !.jobs[at].nextRunAtMs = nextRunAfter(c.jobs[at].schedule, c.now)])

MaxQueuedRuns == 2

xsVars == <<disk, runs, argv, browser, fanout, tracker, guard,
            xVars, eVars, pc, exitCode, stdout, stderr, mode, calls, cacheFile, mVars>>

\* the state after cronJobExtension(pi): an empty map, no timer, the jobs file as found
InitScheduleWith(files, limit) ==
    /\ \E file \in files :
        cron = [now |-> 0, jobs |-> <<>>, file |-> file, isAgentBusy |-> FALSE,
                timer |-> FALSE, sent |-> None, reply |-> None, resumed |-> None,
                limit |-> limit]
    /\ fanout = <<>> /\ tracker = <<>> /\ guard = <<>>
    /\ disk = None /\ runs = <<>> /\ argv = None /\ browser = <<>>
    /\ pc = "schedule" /\ mode = "none" /\ cacheFile = [kind |-> "missing"]
    /\ IdleMain /\ IdleError /\ IdleExtract

\* the occurrences of a schedule from a next-run time up to now
occurrencesDue(schedule, nextRunAtMs, nowMs) ==
    IF nextRunAtMs = None THEN {}
    ELSE {t \in 0..nowMs : /\ t % 2 = 0
                           /\ cronMatches(schedule, t \div 2)
                           /\ The(nextRunAtMs) <= t}

\* what every handler starts from: nothing sent, nothing notified yet
handling(c) == [c EXCEPT !.sent = None, !.reply = None]

\* time passes
ClockAdvances ==
    /\ cron.now < cron.limit
    /\ cron' = [cron EXCEPT !.now = @ + 1]
    /\ UNCHANGED xsVars

\* the interval timer fires
TimerTick(throws) ==
    /\ cron.timer
    /\ cron' = tickAt(handling(cron), throws)
    /\ UNCHANGED xsVars

\* session_start
SessionStart(throws) ==
    /\ cron' = tickAt([loadJobsIntoMemory(handling(cron)) EXCEPT !.timer = TRUE], throws)
    /\ UNCHANGED xsVars

\* agent_start
AgentStarts ==
    /\ ~cron.isAgentBusy
    /\ cron' = [handling(cron) EXCEPT !.isAgentBusy = TRUE]
    /\ UNCHANGED xsVars

\* agent_end
AgentEnds ==
    /\ cron.isAgentBusy
    /\ cron' = [handling(cron) EXCEPT !.isAgentBusy = FALSE]
    /\ UNCHANGED xsVars

\* /cron pause <job-id-or-name>
PauseCommand(identifier) ==
    /\ LET resolved == getJobByIdentifier(cron, identifier) IN
       cron' = IF ~resolved.success THEN [handling(cron) EXCEPT !.reply = Some(resolved.error)]
               ELSE pauseJob(handling(cron), resolved.value)
    /\ UNCHANGED xsVars

\* /cron resume <job-id-or-name>
ResumeCommand(identifier) ==
    /\ LET resolved == getJobByIdentifier(cron, identifier) IN
       cron' = IF ~resolved.success THEN [handling(cron) EXCEPT !.reply = Some(resolved.error)]
               ELSE [resumeJob(handling(cron), resolved.value)
                        EXCEPT !.resumed =
                            Some([id |-> cron.jobs[resolved.value].id,
                                  at |-> cron.now,
                                  missed |-> Cardinality(occurrencesDue(
                                                 cron.jobs[resolved.value].schedule,
                                                 cron.jobs[resolved.value].nextRunAtMs,
                                                 cron.now))])]
    /\ UNCHANGED xsVars

\* /cron run <job-id-or-name>
RunCommand(identifier, throws) ==
    /\ LET resolved == getJobByIdentifier(cron, identifier) IN
       cron' = IF ~resolved.success THEN [handling(cron) EXCEPT !.reply = Some(resolved.error)]
               ELSE IF cron.jobs[resolved.value].pendingRuns >= MaxQueuedRuns THEN cron
               ELSE LET queued == [handling(cron) EXCEPT
                                      !.jobs[resolved.value].pendingRuns = @ + 1]
                    IN IF queued.isAgentBusy THEN queued
                       ELSE dispatchRun(queued, resolved.value, throws)
    /\ UNCHANGED xsVars

\* parseEveryToSchedule
parseEveryToSchedule(everyRaw) ==
    CASE everyRaw = "1m" -> [success |-> TRUE, value |-> EveryOneMinute]
      [] everyRaw = "2m" -> [success |-> TRUE, value |-> EveryOtherMinute]
      [] everyRaw = "0m" -> [success |-> FALSE,
                             error |-> "interval value must be greater than zero"]
      [] OTHER -> [success |-> FALSE, error |-> "invalid interval"]

IdsGiven == {"id1", "id2", "id3"}

\* randomUUID().slice(0, 8): an id no job of the map has
freshId(c) == CHOOSE id \in IdsGiven : indexOfId(c.jobs, id, 1) = 0

\* the job /cron add and /cron every build, handed to upsertJob
addJob(c, name, schedule) ==
    LET result == upsertJob(c, [id |-> freshId(c), name |-> name, schedule |-> schedule,
                                enabled |-> TRUE, lastRunAtIso |-> None])
    IN IF result.success THEN result.c ELSE [c EXCEPT !.reply = Some(result.error)]

\* /cron add [--name <name>] <schedule> -- <prompt>
AddCommand(name, schedule) ==
    /\ Len(cron.jobs) < Cardinality(IdsGiven)
    /\ LET c == handling(cron)
           parsedCron == parseCronExpression(schedule)
       IN cron' = IF name # None /\ hasJobName(c, The(name))
                      THEN [c EXCEPT !.reply = Some(<<"job name already exists:", The(name)>>)]
                  ELSE IF ~parsedCron.success
                      THEN [c EXCEPT !.reply = Some(<<parsedCron.error>>)]
                  ELSE addJob(c, name, parsedCron.value)
    /\ UNCHANGED xsVars

\* /cron every [--name <name>] <interval> -- <prompt>
EveryCommand(name, interval) ==
    /\ Len(cron.jobs) < Cardinality(IdsGiven)
    /\ LET c == handling(cron)
           schedule == parseEveryToSchedule(interval)
       IN cron' = IF name # None /\ hasJobName(c, The(name))
                      THEN [c EXCEPT !.reply = Some(<<"job name already exists:", The(name)>>)]
                  ELSE IF ~schedule.success
                      THEN [c EXCEPT !.reply = Some(<<schedule.error>>)]
                  ELSE addJob(c, name, schedule.value)
    /\ UNCHANGED xsVars

\* Map.delete
RECURSIVE mapDelete(_, _)
mapDelete(runtimeJobs, id) ==
    IF runtimeJobs = <<>> THEN <<>>
    ELSE IF Head(runtimeJobs).id = id THEN Tail(runtimeJobs)
    ELSE <<Head(runtimeJobs)>> \o mapDelete(Tail(runtimeJobs), id)

\* /cron remove <job-id-or-name>
RemoveCommand(identifier) ==
    /\ LET resolved == getJobByIdentifier(cron, identifier)
           c == handling(cron)
       IN cron' = IF ~resolved.success THEN [c EXCEPT !.reply = Some(resolved.error)]
                  ELSE saveState([c EXCEPT !.jobs = mapDelete(@, c.jobs[resolved.value].id)])
    /\ UNCHANGED xsVars

-----------------------------------------------------------------------------
(* Ticks, pauses and failed sends on the clock *)

MaxNow == 4

\* the jobs file found at start: a named job and an unnamed one
ScheduleFiles ==
    {[loads |-> TRUE,
      jobs |-> <<[id |-> "id1", name |-> Some("Nightly"), schedule |-> first,
                  enabled |-> TRUE, lastRunAtIso |-> None],
                 [id |-> "id2", name |-> None, schedule |-> EveryOtherMinute,
                  enabled |-> TRUE, lastRunAtIso |-> None]>>] :
        first \in {EveryMinute, EveryOtherMinute, NeverMatching}}

InitSchedule == InitScheduleWith(ScheduleFiles, MaxNow)

NextSchedule ==
    \/ ClockAdvances
    \/ \E throws \in BOOLEAN : TimerTick(throws)
    \/ \E throws \in BOOLEAN : SessionStart(throws)
    \/ AgentStarts
    \/ AgentEnds
    \/ \E identifier \in {"id1", "id2"}, throws \in BOOLEAN : RunCommand(identifier, throws)

SpecSchedule == InitSchedule /\ [][NextSchedule]_vars

\* the prompt of the job was sent by the step
sentFor(c, id) == IF c.sent = Some(id) THEN 1 ELSE 0

\* C34 as stated: after a tick every enabled job's next run is null or after
\* now, and its queue has grown by exactly the occurrences from its previous
\* next run up to now
C34_GrownByOccurrences ==
    [][\A throws \in BOOLEAN : TimerTick(throws) =>
          \A at \in 1..Len(cron.jobs) : cron.jobs[at].enabled =>
              /\ \/ cron'.jobs[at].nextRunAtMs = None
                 \/ The(cron'.jobs[at].nextRunAtMs) > cron.now
              /\ cron'.jobs[at].pendingRuns =
                     cron.jobs[at].pendingRuns
                     + Cardinality(occurrencesDue(cron.jobs[at].schedule,
                                                  cron.jobs[at].nextRunAtMs, cron.now))]_vars

\* C34 amended: after a tick every enabled job's next run is null or after
\* now, and its queue has grown by exactly the occurrences from its previous
\* next run up to now, less the one run the same tick sent to the idle agent
C34_GrownByOccurrencesLessSent ==
    [][\A throws \in BOOLEAN : TimerTick(throws) =>
          \A at \in 1..Len(cron.jobs) : cron.jobs[at].enabled =>
              /\ \/ cron'.jobs[at].nextRunAtMs = None
                 \/ The(cron'.jobs[at].nextRunAtMs) > cron.now
              /\ cron'.jobs[at].pendingRuns =
                     cron.jobs[at].pendingRuns
                     + Cardinality(occurrencesDue(cron.jobs[at].schedule,
                                                  cron.jobs[at].nextRunAtMs, cron.now))
                     - sentFor(cron', cron.jobs[at].id)]_vars

\* a tick has caught up two missed occurrences of a job and sent one run of it
C34_Witness ==
    /\ cron # <<>> /\ cron.timer /\ Len(cron.jobs) = 2
    /\ cron.sent = Some("id1")
    /\ cron.jobs[1].enabled /\ cron.jobs[1].pendingRuns >= 1
    /\ cron.jobs[1].nextRunAtMs # None /\ The(cron.jobs[1].nextRunAtMs) > cron.now

\* a send is attempted by a tick of the idle agent when a job has a run queued
\* or an occurrence due
sendAttempted(c) ==
    /\ ~c.isAgentBusy
    /\ \E at \in 1..Len(c.jobs) :
          /\ c.jobs[at].enabled
          /\ c.jobs[at].pendingRuns
                 + Cardinality(occurrencesDue(c.jobs[at].schedule,
                                              c.jobs[at].nextRunAtMs, c.now)) > 0

-----------------------------------------------------------------------------
(* Pausing and resuming a job on the clock *)

MaxPauseNow == 4

\* the jobs file found at start: one named job
PauseFiles ==
    {[loads |-> TRUE,
      jobs |-> <<[id |-> "id1", name |-> Some("Nightly"), schedule |-> schedule,
                  enabled |-> TRUE, lastRunAtIso |-> None]>>] :
        schedule \in {EveryMinute, EveryOtherMinute}}

InitPause == InitScheduleWith(PauseFiles, MaxPauseNow)

NextPause ==
    \/ ClockAdvances
    \/ TimerTick(FALSE)
    \/ SessionStart(FALSE)
    \/ AgentStarts
    \/ AgentEnds
    \/ \E identifier \in {"id1", "nightly", "weekly"} : PauseCommand(identifier)
    \/ \E identifier \in {"id1", "nightly", "weekly"} : ResumeCommand(identifier)
    \/ RunCommand("id1", FALSE)

SpecPause == InitPause /\ [][NextPause]_vars

\* the job an identifier names: its id, or its name whatever the case
namedBy(runtimeJob, identifier) ==
    \/ runtimeJob.id = identifier
    \/ runtimeJob.name \in {Some("Nightly")} /\ identifier = "nightly"

\* C32: /cron pause leaves the job disabled with no queued run and records it
\* in the jobs file; a timer tick leaves a disabled job as it is and sends no
\* prompt for it, and a session_start reloads it disabled with no queued run
C32_PausedJobNeverQueued ==
    [][/\ \A identifier \in {"id1", "nightly"} :
            (PauseCommand(identifier) /\ cron'.reply = None) =>
                \E at \in 1..Len(cron.jobs) :
                    /\ namedBy(cron.jobs[at], identifier)
                    /\ ~cron'.jobs[at].enabled
                    /\ cron'.jobs[at].pendingRuns = 0
                    /\ ~cron'.file.jobs[at].enabled
       /\ TimerTick(FALSE) =>
            \A at \in 1..Len(cron.jobs) : ~cron.jobs[at].enabled =>
                /\ cron'.jobs[at] = cron.jobs[at]
                /\ cron'.sent # Some(cron.jobs[at].id)
       /\ SessionStart(FALSE) =>
            \A at \in 1..Len(cron.jobs) : ~cron.jobs[at].enabled =>
                /\ ~cron'.jobs[at].enabled
                /\ cron'.jobs[at].pendingRuns = 0
                /\ cron'.jobs[at].lastRunAtIso = cron.jobs[at].lastRunAtIso
                /\ cron'.sent # Some(cron.jobs[at].id)]_vars

\* a paused job whose next run lies two occurrences back, the agent idle
C32_Witness ==
    /\ cron # <<>> /\ cron.timer /\ Len(cron.jobs) = 1
    /\ ~cron.jobs[1].enabled /\ cron.jobs[1].pendingRuns = 0
    /\ ~cron.isAgentBusy
    /\ cron.jobs[1].schedule = EveryMinute
    /\ cron.jobs[1].nextRunAtMs # None /\ The(cron.jobs[1].nextRunAtMs) + 2 <= cron.now

\* the first occurrence of a schedule strictly after a time
firstOccurrenceAfter(schedule, afterMs) ==
    LET later == {t \in (afterMs + 1)..(afterMs + 2 * MAX_NEXT_RUN_SEARCH_MINUTES) :
                    t % 2 = 0 /\ cronMatches(schedule, t \div 2)}
    IN IF later = {} THEN None
       ELSE Some(CHOOSE t \in later : \A other \in later : t <= other)

\* C35: /cron resume enables the job, sets its next run to the first
\* occurrence strictly after the time of the resume and queues nothing; the
\* ticks after it queue no more than the occurrences after the resume
C35_ResumeSkipsPausedOccurrences ==
    [][/\ \A identifier \in {"id1", "nightly"} :
            (ResumeCommand(identifier) /\ cron'.reply = None) =>
                \E at \in 1..Len(cron.jobs) :
                    /\ namedBy(cron.jobs[at], identifier)
                    /\ cron'.jobs[at].enabled
                    /\ cron'.jobs[at].nextRunAtMs =
                           firstOccurrenceAfter(cron.jobs[at].schedule, cron.now)
                    /\ cron'.jobs[at].pendingRuns = cron.jobs[at].pendingRuns
                    /\ cron'.sent = None
       /\ (TimerTick(FALSE) /\ cron.resumed # None) =>
            \A at \in 1..Len(cron.jobs) :
                (cron.jobs[at].id = The(cron.resumed).id /\ cron.jobs[at].enabled) =>
                    cron'.jobs[at].pendingRuns + sentFor(cron', cron.jobs[at].id)
                        - cron.jobs[at].pendingRuns
                    <= Cardinality({t \in occurrencesDue(cron.jobs[at].schedule, Some(0),
                                                         cron.now) :
                                       t > The(cron.resumed).at})]_vars

\* a job resumed over a missed occurrence has run on an occurrence after the resume
C35_Witness ==
    /\ cron # <<>> /\ cron.resumed # None /\ Len(cron.jobs) = 1
    /\ The(cron.resumed).missed >= 1
    /\ cron.jobs[1].enabled
    /\ cron.jobs[1].lastRunAtIso # None
    /\ The(cron.jobs[1].lastRunAtIso) > The(cron.resumed).at

-----------------------------------------------------------------------------
(* Job names *)

\* the jobs file found at start: none, one that does not load, and files
\* edited by hand with a name twice and with a schedule that does not parse
NameFiles ==
    {[loads |-> TRUE, jobs |-> <<>>],
     [loads |-> FALSE, jobs |-> <<>>],
     [loads |-> TRUE,
      jobs |-> <<[id |-> "id1", name |-> Some("Nightly"), schedule |-> EveryMinute,
                  enabled |-> TRUE, lastRunAtIso |-> None],
                 [id |-> "id2", name |-> Some(" nightly "), schedule |-> EveryOtherMinute,
                  enabled |-> FALSE, lastRunAtIso |-> None]>>],
     [loads |-> TRUE,
      jobs |-> <<[id |-> "id1", name |-> Some("Weekly"), schedule |-> "not a schedule",
                  enabled |-> TRUE, lastRunAtIso |-> None],
                 [id |-> "id2", name |-> None, schedule |-> EveryMinute,
                  enabled |-> TRUE, lastRunAtIso |-> None]>>]}

NamesGiven == {None, Some("Nightly"), Some("nightly")}
IdentifiersGiven == {"id2", "nightly", "id9"}

InitNames == InitScheduleWith(NameFiles, 0)

NextNames ==
    \/ \E name \in NamesGiven, schedule \in {EveryOtherMinute, "not a schedule"} :
          AddCommand(name, schedule)
    \/ \E name \in NamesGiven, interval \in {"2m", "0m"} : EveryCommand(name, interval)
    \/ \E identifier \in IdentifiersGiven : RemoveCommand(identifier)
    \/ \E identifier \in IdentifiersGiven : PauseCommand(identifier)
    \/ \E identifier \in IdentifiersGiven : ResumeCommand(identifier)
    \/ SessionStart(FALSE)

SpecNames == InitNames /\ [][NextNames]_vars

\* names that are equal after trimming and lower-casing
NameClasses == {{"Nightly", "nightly", " nightly "}, {"Weekly", "weekly", "WEEKLY"}}

sameName(left, right) ==
    \/ left = right
    \/ \E class \in NameClasses : left \in class /\ right \in class

noSharedName(runtimeJobs) ==
    \A left, right \in 1..Len(runtimeJobs) :
        (/\ left # right
         /\ runtimeJobs[left].name # None
         /\ runtimeJobs[right].name # None) =>
            ~sameName(The(runtimeJobs[left].name), The(runtimeJobs[right].name))

nameTaken(runtimeJobs, name) ==
    \E at \in 1..Len(runtimeJobs) :
        runtimeJobs[at].name # None /\ sameName(The(runtimeJobs[at].name), name)

\* C33: after every command and every session_start no two jobs of the map
\* have names equal after trimming and lower-casing, and /cron add and /cron
\* every with a name a job already has answer 'job name already exists' and
\* leave the map and the jobs file as they were
C33_NamesStayUnique ==
    [][/\ noSharedName(cron'.jobs)
       /\ \A name \in NamesGiven \ {None} :
            (/\ nameTaken(cron.jobs, The(name))
             /\ \/ \E schedule \in {EveryOtherMinute, "not a schedule"} : AddCommand(name, schedule)
                \/ \E interval \in {"2m", "0m"} : EveryCommand(name, interval)) =>
                /\ cron'.reply = Some(<<"job name already exists:", The(name)>>)
                /\ cron'.jobs = cron.jobs
                /\ cron'.file = cron.file]_vars

\* an add under the name of a job in another case was rejected, next to a second job
C33_Witness ==
    /\ cron # <<>> /\ Len(cron.jobs) >= 2
    /\ cron.reply = Some(<<"job name already exists:", "nightly">>)
    /\ \E at \in 1..Len(cron.jobs) : cron.jobs[at].name = Some("Nightly")

-----------------------------------------------------------------------------
(* Cache paths of requests *)
\* A string is the tuple of its characters.

SafeChars == {"a", "b", "c", "s", "v", "7", ".", "-"}

\* sanitizeKey: every run of characters outside [a-zA-Z0-9.-] becomes one "_"
RECURSIVE sanitizeKey(_)
sanitizeKey(value) ==
    IF value = <<>> THEN <<>>
    ELSE IF Head(value) \in SafeChars THEN <<Head(value)>> \o sanitizeKey(Tail(value))
    ELSE IF Len(value) > 1 /\ value[2] \notin SafeChars THEN sanitizeKey(Tail(value))
    ELSE <<"_">> \o sanitizeKey(Tail(value))

\* buildCachePath: the file name under CACHE_DIR, without ".json"
buildCachePath(request) ==
    sanitizeKey(request.serverName) \o <<"_", "_">> \o sanitizeKey(request.orgSlug)
        \o <<"_", "_">> \o sanitizeKey(request.pipelineSlug)
        \o <<"_", "_">> \o sanitizeKey(request.buildNumber)

HomeRequest ==
    [serverName |-> <<"s">>, orgSlug |-> <<"a", "/">>, pipelineSlug |-> <<"c">>,
     buildNumber |-> <<"7">>]

\* requests of which every two in a row share a cache path
RequestsGiven ==
    { HomeRequest,
      [HomeRequest EXCEPT !.orgSlug = <<"a">>, !.pipelineSlug = <<"/", "c">>],
      [HomeRequest EXCEPT !.serverName = <<"s", " ", "v">>],
      [HomeRequest EXCEPT !.serverName = <<"s", ":", ":", "v">>],
      [HomeRequest EXCEPT !.buildNumber = <<"7", "+">>],
      [HomeRequest EXCEPT !.buildNumber = <<"7", " ">>] }

PathsGiven == {buildCachePath(request) : request \in RequestsGiven}

\* the states of the one Playwright job of the build, as get_build reports them
JobStatesGiven == {[id \in {1} |-> "failed"], [id \in {1} |-> "running"]}

\* what the loop over the failed jobs of the request's build computes
computedEntry(request, jobStates) ==
    cacheEntry(request, jobStates, Some(request), jobStates, <<>>)

\* the invocations so far: none
InitCollide ==
    /\ disk = [path \in PathsGiven |-> [kind |-> "missing"]]
    /\ runs = <<>>
    /\ pc = "collide" /\ mode = "none" /\ cacheFile = [kind |-> "missing"]
    /\ argv = None /\ browser = <<>>
    /\ IdleMain /\ IdleError /\ IdleExtract /\ IdleExtensions

xdVars == <<argv, browser, cron, fanout, tracker, guard,
            xVars, eVars, pc, exitCode, stdout, stderr, mode, calls, cacheFile, mVars>>

\* main for a summary, from buildCachePath to the end of the invocation;
\* written: fs.writeFile succeeds
Summarise(request, jobStates, written) ==
    LET cachePath == buildCachePath(request)
        cached == disk[cachePath]
        run == [request |-> request, jobStates |-> jobStates, before |-> cached]
    IN
    /\ IF cached.kind = "corrupt"
       THEN /\ runs' = run @@ [out |-> None, exit |-> 1]
            /\ disk' = disk
       ELSE IF cached.kind = "entry" /\ isCacheValid(cached, request, jobStates)
       THEN /\ runs' = run @@ [out |-> Some(SummaryDoc(cached.payload.build,
                                                        cached.payload.summary,
                                                        cached.payload.jobs, TRUE)),
                               exit |-> 0]
            /\ disk' = disk
       ELSE IF written
       THEN /\ runs' = run @@ [out |-> Some(SummaryDoc(Some(request), jobStates, <<>>, FALSE)),
                               exit |-> 0]
            /\ disk' = [disk EXCEPT ![cachePath] = computedEntry(request, jobStates)]
       ELSE /\ runs' = run @@ [out |-> None, exit |-> 1]
            /\ disk' \in {disk, [disk EXCEPT ![cachePath] = [kind |-> "corrupt"]]}
    /\ UNCHANGED xdVars

NextCollide ==
    \E request \in RequestsGiven, jobStates \in JobStatesGiven, written \in BOOLEAN :
        Summarise(request, jobStates, written)

SpecCollide == InitCollide /\ [][NextCollide]_vars

\* the entry records the four fields of the request
recordsIdentityOf(entry, request) ==
    /\ entry.meta # None
    /\ The(entry.meta).orgSlug = request.orgSlug
    /\ The(entry.meta).pipelineSlug = request.pipelineSlug
    /\ The(entry.meta).buildNumber = request.buildNumber
    /\ The(entry.meta).serverName = request.serverName

\* C39: an invocation answers from the cache only when the entry at its cache
\* path records the org, pipeline, build and server of the request, and then
\* with the summary of that build; an entry at the same path that records
\* another identity is not used: the summary is computed for the request and,
\* unless the write fails, the entry of the request replaces it
C39_CachedOnlyForSameIdentity ==
    runs # <<>> =>
        /\ (runs.out # None /\ The(runs.out).cached) =>
              /\ runs.before.kind = "entry"
              /\ recordsIdentityOf(runs.before, runs.request)
        /\ runs.out # None => The(runs.out).build = Some(runs.request)
        /\ (runs.before.kind = "entry" /\ ~recordsIdentityOf(runs.before, runs.request)) =>
              \/ runs.out = None /\ runs.exit = 1
              \/ /\ runs.out # None /\ ~The(runs.out).cached
                 /\ disk[buildCachePath(runs.request)]
                        = computedEntry(runs.request, runs.jobStates)

\* the entry of one request was found at the cache path of another request
\* with the same job states, and was replaced
C39_Witness ==
    /\ runs # <<>> /\ runs.before.kind = "entry"
    /\ ~recordsIdentityOf(runs.before, runs.request)
    /\ The(runs.before.meta).jobStates = Some(runs.jobStates)
    /\ runs.out # None /\ ~The(runs.out).cached
    /\ recordsIdentityOf(disk[buildCachePath(runs.request)], runs.request)

-----------------------------------------------------------------------------
(* The selection dialog of the failure browser *)
\* Indexes count from 0 as in the source; a test is known by its name, and
\* currentEntries by the environment entries of the selected test.

MaxItems == 3
MaxEnvEntries == 3

TestNamesGiven == <<"t1", "t2", "t3", "t4">>

\* the items of the summary and testEntriesMap: every test of the summary
\* failed in at least one job, which is an entry of it
DialogsGiven ==
    UNION {{[items |-> [i \in 1..n |-> TestNamesGiven[i]], testEntriesMap |-> entries] :
              entries \in [{TestNamesGiven[i] : i \in 1..n} -> 1..MaxEnvEntries]} :
           n \in 1..MaxItems}

\* FailureList.getSelectedItem
getSelectedItem(b) ==
    IF b.selectedIndex + 1 \in 1..Len(b.items) THEN Some(b.items[b.selectedIndex + 1]) ELSE None

\* the entries of the newly selected test under the index of the last one
updateEntriesKeepingIndex(b, testName) ==
    IF testName = None THEN [b EXCEPT !.selectedTestName = None, !.currentEntries = 0]
    ELSE [b EXCEPT !.selectedTestName = testName,
                   !.currentEntries = IF The(testName) \in DOMAIN b.testEntriesMap
                                      THEN b.testEntriesMap[The(testName)] ELSE 0]

\* updateEntriesForTest
updateEntriesForTest(b, testName) ==
    IF testName = None
        THEN [b EXCEPT !.selectedTestName = None, !.currentEntries = 0, !.selectedEnvIndex = 0]
    ELSE [b EXCEPT !.selectedTestName = testName,
                   !.currentEntries = IF The(testName) \in DOMAIN b.testEntriesMap
                                      THEN b.testEntriesMap[The(testName)] ELSE 0,
                   !.selectedEnvIndex = 0]

\* FailureList.notifySelectionChange and the onSelectionChange of the dialog
notifySelectionChange(b) ==
    IF getSelectedItem(b) = None THEN b ELSE updateEntriesForTest(b, getSelectedItem(b))

\* getSelectedEntry: the position of the entry in currentEntries, None for null
getSelectedEntry(b) ==
    IF b.selectedTestName = None \/ b.currentEntries = 0 THEN None
    ELSE Some(IF b.selectedEnvIndex <= b.currentEntries - 1 THEN b.selectedEnvIndex
              ELSE b.currentEntries - 1)

xbVars == <<disk, runs, argv, cron, fanout, tracker, guard,
            xVars, eVars, pc, exitCode, stdout, stderr, mode, calls, cacheFile, mVars>>

\* renderSelectionDialog up to the first applyTheme
InitDialog ==
    /\ \E dialog \in DialogsGiven :
        browser = updateEntriesForTest(
                      [at |-> "dialog", items |-> dialog.items,
                       testEntriesMap |-> dialog.testEntriesMap,
                       selectedIndex |-> 0, selectedTestName |-> None, selectedEnvIndex |-> 0,
                       currentEntries |-> 0, key |-> "none", result |-> None],
                      Some(dialog.items[1]))
    /\ disk = None /\ runs = <<>> /\ argv = None
    /\ pc = "dialog" /\ mode = "none" /\ cacheFile = [kind |-> "missing"]
    /\ IdleMain /\ IdleError /\ IdleExtract /\ IdleExtensions

\* FailureList.handleInput: Key.up
KeyUp ==
    /\ browser.at = "dialog"
    /\ browser' = notifySelectionChange(
                      [browser EXCEPT !.key = "up",
                                      !.selectedIndex = IF @ = 0 THEN Len(browser.items) - 1
                                                        ELSE @ - 1])
    /\ UNCHANGED xbVars

\* FailureList.handleInput: Key.down
KeyDown ==
    /\ browser.at = "dialog"
    /\ browser' = notifySelectionChange(
                      [browser EXCEPT !.key = "down",
                                      !.selectedIndex = IF @ = Len(browser.items) - 1 THEN 0
                                                        ELSE @ + 1])
    /\ UNCHANGED xbVars

\* handleInput of the dialog: Key.tab (direction 1) and Key.shift("tab") (direction -1)
KeyTab(direction) ==
    /\ browser.at = "dialog"
    /\ browser' = IF browser.currentEntries > 0
                  THEN [browser EXCEPT !.key = IF direction = 1 THEN "tab" ELSE "shift-tab",
                                       !.selectedEnvIndex =
                                           (@ + direction + browser.currentEntries)
                                               % browser.currentEntries]
                  ELSE [browser EXCEPT !.key = IF direction = 1 THEN "tab" ELSE "shift-tab"]
    /\ UNCHANGED xbVars

\* invalidate: applyTheme once more
Invalidate ==
    /\ browser.at = "dialog"
    /\ browser' = updateEntriesForTest([browser EXCEPT !.key = "none"], getSelectedItem(browser))
    /\ UNCHANGED xbVars

\* FailureList.handleInput: Key.enter, done with the test and its entry
KeyEnter ==
    /\ browser.at = "dialog"
    /\ browser' = IF getSelectedItem(browser) = None THEN [browser EXCEPT !.key = "enter"]
                  ELSE [browser EXCEPT !.key = "enter", !.at = "closed",
                                       !.result = Some([testName |-> The(getSelectedItem(browser)),
                                                        envEntry |-> getSelectedEntry(browser)])]
    /\ UNCHANGED xbVars

\* FailureList.handleInput: Key.escape and ctrl-c, done with null
KeyEscape ==
    /\ browser.at = "dialog"
    /\ browser' = [browser EXCEPT !.key = "escape", !.at = "closed", !.result = None]
    /\ UNCHANGED xbVars

NextDialog ==
    \/ KeyUp
    \/ KeyDown
    \/ \E direction \in {1, -1} : KeyTab(direction)
    \/ Invalidate
    \/ KeyEnter
    \/ KeyEscape

SpecDialog == InitDialog /\ [][NextDialog]_vars

\* the environment entries of the test the list has selected
entriesOfSelected(b) == b.testEntriesMap[b.items[b.selectedIndex + 1]]

\* C40: the selected test index is in [0, number of items) and the selected
\* environment index in [0, number of entries of the selected test); up and
\* down move the test index by one and wrap at both ends, tab and shift-tab
\* leave it alone, and every step that changes the selected test leaves the
\* environment index 0
C40_SelectionInRange ==
    /\ [](/\ browser.selectedIndex \in 0..(Len(browser.items) - 1)
          /\ browser.selectedEnvIndex \in 0..(entriesOfSelected(browser) - 1)
          /\ browser.currentEntries = entriesOfSelected(browser))
    /\ [][/\ KeyUp => browser'.selectedIndex =
                        IF browser.selectedIndex = 0 THEN Len(browser.items) - 1
                        ELSE browser.selectedIndex - 1
          /\ KeyDown => browser'.selectedIndex =
                        IF browser.selectedIndex = Len(browser.items) - 1 THEN 0
                        ELSE browser.selectedIndex + 1
          /\ (\E direction \in {1, -1} : KeyTab(direction)) =>
                browser'.selectedIndex = browser.selectedIndex
          /\ browser'.selectedIndex # browser.selectedIndex =>
                browser'.selectedEnvIndex = 0]_vars

\* up from the first of three tests, shown on its third environment, has
\* wrapped to the last test, which has a single environment
C40_Witness ==
    /\ browser # <<>> /\ browser.at = "dialog" /\ browser.key = "up"
    /\ Len(browser.items) = 3 /\ browser.selectedIndex = 2
    /\ browser.testEntriesMap["t1"] = 3 /\ browser.testEntriesMap["t3"] = 1
    /\ browser.selectedEnvIndex = 0

=============================================================================
